---- MODULE Spec2Model ----
(***************************************************************************)
(* Model of media_analyst's normalisation pipeline: the ParsedData         *)
(* container (core/models.py) with deduplicate() and deduplication_stats,  *)
(* and the JSON ingestion of core/parser.py (parse_json_file,              *)
(* parse_json_files).                                                      *)
(*                                                                         *)
(* SpecDedup  : a ParsedData built directly from Post/Comment values, then *)
(*              deduplicate() / deduplication_stats calls on it.           *)
(* SpecParse  : a small file system, then one parse_json_file or           *)
(*              parse_json_files call on it.                               *)
(* SpecRecord : parse_post, parse_comment or detect_platform on one value. *)
(* SpecName   : the two file-name functions on one path.                   *)
(*                                                                         *)
(* And of the process supervision: CrawlerExecution (core/models.py) and   *)
(* CrawlerRunner (shell/runner.py).                                        *)
(*                                                                         *)
(* SpecExecution : mark_* and add_output calls on one CrawlerExecution.    *)
(* SpecRunner    : start, poll, stop and wait calls on one CrawlerRunner,  *)
(*                 and the crawler processes exiting.                      *)
(***************************************************************************)
EXTENDS Integers, Sequences, FiniteSets, TLC

VARIABLES
    fs,      \* the files on disk: path -> [kind, data, mtime]
    heap,    \* the ParsedData objects alive, in allocation order
    origin,  \* origin[i] = the object deduplicate() was called on to get heap[i], or 0
    ret,     \* the last call and what it returned
    os,      \* the clock and the processes Popen has launched, by pid
    runner   \* the CrawlerRunner: _current_process, _current_execution
             \* (heap holds the CrawlerExecution objects under SpecExecution and
             \* SpecRunner)

vars == <<fs, heap, origin, ret, os, runner>>

\* No process launched, no runner in use
NoOs == [now |-> 0, processes |-> <<>>]
NoRunner == [current_process |-> <<>>, current_execution |-> <<>>]

----------------------------------------------------------------------------
(* Values *)

\* Optional[...] = None
NoTime == <<>>
NoPlatform == "null"

\* datetime as <<year, month, day, hour, minute, second>>; Python compares
\* naive datetimes field by field in that order.
RECURSIVE DtGreaterFrom(_, _, _)
DtGreaterFrom(a, b, i) ==
    IF i > Len(a) THEN FALSE
    ELSE IF a[i] > b[i] THEN TRUE
    ELSE IF a[i] < b[i] THEN FALSE
    ELSE DtGreaterFrom(a, b, i + 1)

DtGreater(a, b) == DtGreaterFrom(a, b, 1)

\* Platform enum values
PlatformValues == {"xhs", "dy", "ks", "bili", "wb", "tieba", "zhihu"}

\* A raw JSON scalar or an Optional[str] field: tagged so that 0, "0" and
\* null stay distinct.
Null == [t |-> "null", v |-> ""]
JStr(s) == [t |-> "str", v |-> s]
JInt(n) == [t |-> "int", v |-> n]

----------------------------------------------------------------------------
(* ParsedData.deduplicate *)

\* key = (post.platform.value, post.content_id)
PostKeyIdOnly(post) == <<post.content_id>>

PostKey(post) == <<post.platform, post.content_id>>

\* key = (comment.platform.value, comment.comment_id)
CommentKey(comment) == <<comment.platform, comment.comment_id>>

\* The branch of the scan for a record whose key is already in the map:
\* TRUE when the scanned record is stored over the existing one.
ReplacesAlways(new_time, existing_time) == TRUE

ReplacesOnlyIfLater(new_time, existing_time) ==
    /\ new_time # NoTime
    /\ existing_time # NoTime
    /\ DtGreater(new_time, existing_time)

ReplacesIfNotEarlier(new_time, existing_time) ==
    IF new_time # NoTime /\ existing_time # NoTime
    THEN ~DtGreater(existing_time, new_time)
    ELSE TRUE

ReplacesByLatestTime(new_time, existing_time) ==
    IF new_time = NoTime THEN existing_time = NoTime
    ELSE IF existing_time = NoTime THEN TRUE
    ELSE DtGreater(new_time, existing_time)

Replaces(new_time, existing_time) ==
    IF new_time # NoTime /\ existing_time # NoTime
    THEN DtGreater(new_time, existing_time)
    ELSE TRUE

\* One iteration of `for post in self.posts`. The dict post_map is the
\* sequence of its values in insertion order; storing under a key that is
\* present keeps the key's position.
PostStep(post_map, post) ==
    IF \E j \in DOMAIN post_map : PostKey(post_map[j]) = PostKey(post)
    THEN LET j == CHOOSE j \in DOMAIN post_map : PostKey(post_map[j]) = PostKey(post)
         IN  IF Replaces(post.crawl_time, post_map[j].crawl_time)
             THEN [post_map EXCEPT ![j] = post]
             ELSE post_map
    ELSE Append(post_map, post)

\* post_map after the first n iterations
RECURSIVE PostScan(_, _)
PostScan(posts, n) ==
    IF n = 0 THEN <<>> ELSE PostStep(PostScan(posts, n - 1), posts[n])

CommentStep(comment_map, comment) ==
    IF \E j \in DOMAIN comment_map : CommentKey(comment_map[j]) = CommentKey(comment)
    THEN LET j == CHOOSE j \in DOMAIN comment_map :
                      CommentKey(comment_map[j]) = CommentKey(comment)
         IN  IF Replaces(comment.crawl_time, comment_map[j].crawl_time)
             THEN [comment_map EXCEPT ![j] = comment]
             ELSE comment_map
    ELSE Append(comment_map, comment)

RECURSIVE CommentScan(_, _)
CommentScan(comments, n) ==
    IF n = 0 THEN <<>> ELSE CommentStep(CommentScan(comments, n - 1), comments[n])

\* ParsedData(posts=..., comments=..., platform=..., total_records=...,
\*            success_count=..., error_count=..., errors=...)
ParsedData(posts, comments, platform, total_records, success_count, error_count, errors) ==
    [posts |-> posts, comments |-> comments, platform |-> platform,
     total_records |-> total_records, success_count |-> success_count,
     error_count |-> error_count, errors |-> errors]

DeduplicateKeepsInputCount(self) ==
    LET post_map == PostScan(self.posts, Len(self.posts))
        comment_map == CommentScan(self.comments, Len(self.comments))
    IN  ParsedData(post_map, comment_map, self.platform, self.total_records,
                   Len(self.posts) + Len(self.comments), self.error_count, self.errors)

DeduplicateResetsMeta(self) ==
    LET post_map == PostScan(self.posts, Len(self.posts))
        comment_map == CommentScan(self.comments, Len(self.comments))
    IN  ParsedData(post_map, comment_map, self.platform,
                   Len(post_map) + Len(comment_map),
                   Len(post_map) + Len(comment_map), 0, <<>>)

\* The value deduplicate() returns
Deduplicate(self) ==
    LET post_map == PostScan(self.posts, Len(self.posts))
        comment_map == CommentScan(self.comments, Len(self.comments))
    IN  ParsedData(post_map, comment_map, self.platform, self.total_records,
                   Len(post_map) + Len(comment_map), self.error_count, self.errors)

\* The objects after self.deduplicate(): a new ParsedData is allocated, no
\* attribute of an existing object is assigned.
DeduplicateInPlace(h, self) ==
    Append([h EXCEPT ![self] = Deduplicate(h[self])], Deduplicate(h[self]))

HeapAfterDeduplicate(h, self) == Append(h, Deduplicate(h[self]))

----------------------------------------------------------------------------
(* ParsedData.deduplication_stats *)

\* post_keys / comment_keys: occurrences of a key in a list of keys
Occurrences(keys, key) == Cardinality({i \in DOMAIN keys : keys[i] = key})

\* sum(1 for count in keys.values() if count > 1)
DuplicateCount(keys) ==
    Cardinality({k \in {keys[i] : i \in DOMAIN keys} : Occurrences(keys, k) > 1})

DeduplicationStats(self) ==
    LET duplicate_posts ==
            DuplicateCount([i \in DOMAIN self.posts |-> PostKey(self.posts[i])])
        duplicate_comments ==
            DuplicateCount([i \in DOMAIN self.comments |-> CommentKey(self.comments[i])])
    IN  [duplicate_posts |-> duplicate_posts,
         duplicate_comments |-> duplicate_comments,
         total_duplicates |-> duplicate_posts + duplicate_comments]

----------------------------------------------------------------------------
(* Bounds and inputs of SpecDedup *)

MaxRecords == 3      \* posts + comments of a directly built ParsedData
MaxHeap == 3         \* ParsedData objects alive at once

T1 == <<2024, 1, 15, 10, 0, 0>>
T2 == <<2024, 1, 20, 14, 30, 0>>
CrawlTimes == {NoTime, T1, T2}

\* One key observed at every capture time with two different like counts,
\* one key that differs from it in the platform only and one that differs in
\* the identifier only.
PostInputs ==
    {[content_id |-> "a", platform |-> "dy", liked_count |-> n,
      crawl_time |-> t, source_file |-> <<>>] :
        n \in {100, 200}, t \in CrawlTimes}
    \cup {[content_id |-> "a", platform |-> "xhs", liked_count |-> 100,
           crawl_time |-> T1, source_file |-> <<>>],
          [content_id |-> "b", platform |-> "dy", liked_count |-> 100,
           crawl_time |-> T1, source_file |-> <<>>]}

CommentInputs ==
    {[comment_id |-> "c", content_id |-> "a", platform |-> "dy", like_count |-> n,
      parent_comment_id |-> Null, is_sub_comment |-> FALSE,
      crawl_time |-> t, source_file |-> <<>>] :
        n \in {10, 20}, t \in CrawlTimes}
    \cup {[comment_id |-> "c", content_id |-> "a", platform |-> "xhs", like_count |-> 10,
           parent_comment_id |-> Null, is_sub_comment |-> FALSE,
           crawl_time |-> T1, source_file |-> <<>>],
          [comment_id |-> "d", content_id |-> "a", platform |-> "dy", like_count |-> 10,
           parent_comment_id |-> Null, is_sub_comment |-> FALSE,
           crawl_time |-> T1, source_file |-> <<>>]}

\* The fields of a ParsedData other than its records: the defaults of
\* ParsedData(posts=[...], comments=[...]), or the counters of an earlier
\* ingestion.
MetaInputs ==
    {[platform |-> NoPlatform, total_records |-> 0, success_count |-> 0,
      error_count |-> 0, errors |-> <<>>],
     [platform |-> "dy", total_records |-> 5, success_count |-> 4,
      error_count |-> 1, errors |-> <<[path |-> <<>>, idx |-> 2, msg |-> "not a dict"]>>]}

NoCall == [op |-> "none"]

InitDedup ==
    /\ fs = <<>>
    /\ \E np \in 0..MaxRecords :
       \E nc \in 0..(MaxRecords - np) :
       \E ps \in [1..np -> PostInputs] :
       \E cs \in [1..nc -> CommentInputs] :
       \E m \in MetaInputs :
          heap = <<ParsedData(ps, cs, m.platform, m.total_records,
                              m.success_count, m.error_count, m.errors)>>
    /\ origin = <<0>>
    /\ ret = NoCall
    /\ os = NoOs
    /\ runner = NoRunner

\* result = self.deduplicate()
CallDeduplicate ==
    \E self \in DOMAIN heap :
        /\ Len(heap) < MaxHeap
        /\ \A i \in DOMAIN origin : origin[i] # self   \* once per object
        /\ heap' = HeapAfterDeduplicate(heap, self)
        /\ origin' = Append(origin, self)
        /\ ret' = [op |-> "deduplicate", self |-> self, out |-> Len(heap) + 1]
        /\ UNCHANGED <<fs, os, runner>>

\* stats = self.deduplication_stats
CallDeduplicationStats ==
    \E self \in DOMAIN heap :
        /\ ret' = [op |-> "deduplication_stats", self |-> self,
                   stats |-> DeduplicationStats(heap[self])]
        /\ UNCHANGED <<fs, heap, origin, os, runner>>

NextDedup == CallDeduplicate \/ CallDeduplicationStats

SpecDedup == InitDedup /\ [][NextDedup]_vars

----------------------------------------------------------------------------
(* File names: a path is the sequence of its characters *)

UpperToLower ==
    "A" :> "a" @@ "B" :> "b" @@ "C" :> "c" @@ "D" :> "d" @@ "E" :> "e" @@ "F" :> "f" @@ "G" :> "g" @@ "H" :> "h" @@ "I" :> "i" @@ "J" :> "j" @@ "K" :> "k" @@ "L" :> "l" @@ "M" :> "m"
    @@ "N" :> "n" @@ "O" :> "o" @@ "P" :> "p" @@ "Q" :> "q" @@ "R" :> "r" @@ "S" :> "s" @@ "T" :> "t" @@ "U" :> "u" @@ "V" :> "v" @@ "W" :> "w" @@ "X" :> "x" @@ "Y" :> "y" @@ "Z" :> "z"

\* str.lower(), character by character
Lower(s) == [i \in DOMAIN s |-> IF s[i] \in DOMAIN UpperToLower
                                 THEN UpperToLower[s[i]] ELSE s[i]]

\* `key in filename`
Contains(s, key) ==
    \E i \in 0..(Len(s) - Len(key)) : \A k \in DOMAIN key : s[i + k] = key[k]

\* platform_map, in the order of the dict literal
PlatformMap ==
    <<<<<<"d", "o", "u", "y", "i", "n">>, "dy">>,
      <<<<"d", "y">>, "dy">>,
      <<<<"x", "i", "a", "o", "h", "o", "n", "g", "s", "h", "u">>, "xhs">>,
      <<<<"x", "h", "s">>, "xhs">>,
      <<<<"b", "i", "l", "i", "b", "i", "l", "i">>, "bili">>,
      <<<<"b", "i", "l", "i">>, "bili">>,
      <<<<"k", "u", "a", "i", "s", "h", "o", "u">>, "ks">>,
      <<<<"k", "s">>, "ks">>,
      <<<<"w", "e", "i", "b", "o">>, "wb">>,
      <<<<"w", "b">>, "wb">>,
      <<<<"t", "i", "e", "b", "a">>, "tieba">>,
      <<<<"z", "h", "i", "h", "u">>, "zhihu">>>>

\* detect_platform_from_filename: the first entry of platform_map whose key
\* occurs in the lowercased file name (the whole path as given)
FirstOf(hits) == CHOOSE n \in hits : \A m \in hits : n <= m

FirstPlatformIn(filename_lower) ==
    LET hits == {n \in DOMAIN PlatformMap : Contains(filename_lower, PlatformMap[n][1])}
    IN  IF hits = {} THEN NoPlatform ELSE PlatformMap[FirstOf(hits)][2]

DetectPlatformFromFilename(filename) == FirstPlatformIn(Lower(filename))

\* Path(filename).stem: the last component without its last suffix
LastIndexOf(s, c) ==
    LET at == {i \in DOMAIN s : s[i] = c}
    IN  IF at = {} THEN 0 ELSE CHOOSE i \in at : \A j \in at : j <= i

PathName(filename) == SubSeq(filename, LastIndexOf(filename, "/") + 1, Len(filename))

WithoutSuffix(name, dot) ==
    IF 1 < dot /\ dot < Len(name) THEN SubSeq(name, 1, dot - 1) ELSE name

StemOfName(name) == WithoutSuffix(name, LastIndexOf(name, "."))

PathStem(filename) == StemOfName(PathName(filename))

DigitValue == "0" :> 0 @@ "1" :> 1 @@ "2" :> 2 @@ "3" :> 3 @@ "4" :> 4
    @@ "5" :> 5 @@ "6" :> 6 @@ "7" :> 7 @@ "8" :> 8 @@ "9" :> 9

IsDigit(c) == c \in DOMAIN DigitValue

\* int() of a run of digits
RECURSIVE DigitsToInt(_)
DigitsToInt(ds) ==
    IF ds = <<>> THEN 0
    ELSE 10 * DigitsToInt(SubSeq(ds, 1, Len(ds) - 1)) + DigitValue[ds[Len(ds)]]

\* A pattern "_(\d{w1}) sep (\d{w2}) sep ..." is the widths of its groups
\* and, before each group, the separator: <<c, "req">> a character that
\* must be there, <<c, "opt">> one that may be ("_?"), <<"", "none">> nothing.
\* The first separator is the pattern's leading "_". MatchAt gives the
\* position after the match of groups k.. started at position i and the
\* groups' values, or <<>> when there is no match. A separator is never a
\* digit, so the greedy choice of "_?" is the only one that can match.
RECURSIVE MatchAt(_, _, _, _, _)
GroupStart(s, i, sep) ==
    IF sep[2] = "none" THEN i
    ELSE IF i <= Len(s) /\ s[i] = sep[1] THEN i + 1
    ELSE IF sep[2] = "opt" THEN i
    ELSE 0

Prepend(value, rest) == IF rest = <<>> THEN <<>> ELSE <<value>> \o rest

MatchGroup(s, start, stop, widths, seps, k) ==
    IF start = 0 \/ stop > Len(s) THEN <<>>
    ELSE IF \E j \in start..stop : ~IsDigit(s[j]) THEN <<>>
    ELSE Prepend(DigitsToInt(SubSeq(s, start, stop)),
                 MatchAt(s, stop + 1, widths, seps, k + 1))

MatchFrom(s, start, widths, seps, k) ==
    MatchGroup(s, start, start + widths[k] - 1, widths, seps, k)

MatchAt(s, i, widths, seps, k) ==
    IF k > Len(widths) THEN <<i>>
    ELSE MatchFrom(s, GroupStart(s, i, seps[k]), widths, seps, k)

\* (?:\.|_|$) after the last group of a date-only pattern
DateEnd(s, i) == i > Len(s) \/ s[i] = "." \/ s[i] = "_"

Matches(s, m, date_only) == m # <<>> /\ (date_only => DateEnd(s, m[Len(m)]))

Groups(m) == SubSeq(m, 1, Len(m) - 1)

\* re.search: the groups of the leftmost match, or <<>>
SearchAt(s, at, widths, seps) ==
    IF at = {} THEN <<>> ELSE Groups(MatchAt(s, FirstOf(at), widths, seps, 1))

Search(s, widths, seps, date_only) ==
    SearchAt(s, {i \in DOMAIN s : Matches(s, MatchAt(s, i, widths, seps, 1), date_only)},
             widths, seps)

IsLeapYear(y) == y % 4 = 0 /\ (y % 100 # 0 \/ y % 400 = 0)

DaysInMonth(y, m) ==
    IF m = 2 THEN (IF IsLeapYear(y) THEN 29 ELSE 28)
    ELSE IF m \in {4, 6, 9, 11} THEN 30 ELSE 31

\* datetime(year, month, day, hour, minute, second) raises ValueError
\* outside these ranges
ValidDatetime(d) ==
    /\ d[1] \in 1..9999
    /\ d[2] \in 1..12
    /\ d[3] \in 1..DaysInMonth(d[1], d[2])
    /\ d[4] \in 0..23
    /\ d[5] \in 0..59
    /\ d[6] \in 0..59

\* pattern1, pattern2, pattern3 and the two date_patterns, in the order tried
TimePatterns ==
    <<[widths |-> <<4, 2, 2, 2, 2, 2>>, date_only |-> FALSE,
       seps |-> <<<<"_", "req">>, <<"_", "opt">>, <<"_", "opt">>,
                  <<"_", "opt">>, <<"_", "opt">>, <<"_", "opt">>>>],
      [widths |-> <<4, 2, 2, 2, 2, 2>>, date_only |-> FALSE,
       seps |-> <<<<"_", "req">>, <<"-", "req">>, <<"-", "req">>,
                  <<"-", "req">>, <<"-", "req">>, <<"-", "req">>>>],
      [widths |-> <<4, 2, 2, 2, 2, 2>>, date_only |-> FALSE,
       seps |-> <<<<"_", "req">>, <<"", "none">>, <<"", "none">>,
                  <<"_", "req">>, <<"", "none">>, <<"", "none">>>>],
      [widths |-> <<4, 2, 2>>, date_only |-> TRUE,
       seps |-> <<<<"_", "req">>, <<"-", "req">>, <<"-", "req">>>>],
      [widths |-> <<4, 2, 2>>, date_only |-> TRUE,
       seps |-> <<<<"_", "req">>, <<"_", "req">>, <<"_", "req">>>>]>>

\* What a pattern gives on the base name: a datetime, or NoTime when it
\* does not match or its first match is no valid date
TimeOfGroups(g, date_only) ==
    IF g = <<>> THEN NoTime
    ELSE IF date_only
         THEN (IF ValidDatetime(g \o <<0, 0, 0>>) THEN g \o <<0, 0, 0>> ELSE NoTime)
    ELSE IF ValidDatetime(g) THEN g ELSE NoTime

PatternTime(base_name, p) ==
    TimeOfGroups(Search(base_name, p.widths, p.seps, p.date_only), p.date_only)

LastTime(times) ==
    IF \A n \in DOMAIN times : times[n] = NoTime THEN NoTime
    ELSE times[CHOOSE n \in DOMAIN times :
                  times[n] # NoTime /\ \A m \in DOMAIN times : times[m] # NoTime => m <= n]

\* The first pattern, in order, that gives a time
FirstTime(times) ==
    IF \A n \in DOMAIN times : times[n] = NoTime THEN NoTime
    ELSE times[FirstOf({n \in DOMAIN times : times[n] # NoTime})]

TimeInBaseName(base_name) ==
    FirstTime([n \in DOMAIN TimePatterns |-> PatternTime(base_name, TimePatterns[n])])

\* The part of extract_crawl_time_from_filename that reads the name only
FilenameTime(filename) == TimeInBaseName(PathStem(filename))

\* dy_2024_0115_100000.json, dy_2024_0120_120000.json: platform and capture
\* time in the name. x_2024-01-18.json: a date only. data.json: neither.
\* KS/data.json: a platform without builders, from the directory.
NameEarly == <<"d", "y", "_", "2", "0", "2", "4", "_", "0", "1", "1", "5", "_", "1", "0", "0", "0", "0", "0", ".", "j", "s", "o", "n">>
NameLate == <<"d", "y", "_", "2", "0", "2", "4", "_", "0", "1", "2", "0", "_", "1", "2", "0", "0", "0", "0", ".", "j", "s", "o", "n">>
NameDate == <<"x", "_", "2", "0", "2", "4", "-", "0", "1", "-", "1", "8", ".", "j", "s", "o", "n">>
NamePlain == <<"d", "a", "t", "a", ".", "j", "s", "o", "n">>
NameKs == <<"K", "S", "/", "d", "a", "t", "a", ".", "j", "s", "o", "n">>

FileNames == {NameEarly, NameLate, NameDate, NamePlain, NameKs}

NamePairs == {<<NameEarly, NameLate>>, <<NameEarly, NamePlain>>, <<NameLate, NamePlain>>}

\* File names given to extract_crawl_time_from_filename and
\* detect_platform_from_filename alone
\* douyin_contents_2024_0221_143052.json: Scenario E: underscore / compact timestamp
NameScenarioFull == <<"d", "o", "u", "y", "i", "n", "_", "c", "o", "n", "t", "e", "n", "t", "s", "_", "2", "0", "2", "4", "_", "0", "2", "2", "1", "_", "1", "4", "3", "0", "5", "2", ".", "j", "s", "o", "n">>

\* report_2026-02-22.json: Scenario E: a date only
NameScenarioDate == <<"r", "e", "p", "o", "r", "t", "_", "2", "0", "2", "6", "-", "0", "2", "-", "2", "2", ".", "j", "s", "o", "n">>

\* xhs_comments_20240222_143052.json: compact date, underscore, compact time
NameCompact == <<"x", "h", "s", "_", "c", "o", "m", "m", "e", "n", "t", "s", "_", "2", "0", "2", "4", "0", "2", "2", "2", "_", "1", "4", "3", "0", "5", "2", ".", "j", "s", "o", "n">>

\* Bili_2024-01-02-03-04-05.json: hyphenated timestamp
NameHyphen == <<"B", "i", "l", "i", "_", "2", "0", "2", "4", "-", "0", "1", "-", "0", "2", "-", "0", "3", "-", "0", "4", "-", "0", "5", ".", "j", "s", "o", "n">>

\* a_2024_01_02.json: a date with underscores
NameUnderscoreDate == <<"a", "_", "2", "0", "2", "4", "_", "0", "1", "_", "0", "2", ".", "j", "s", "o", "n">>

\* some_random_file.json: no timestamp
NameNoTime == <<"s", "o", "m", "e", "_", "r", "a", "n", "d", "o", "m", "_", "f", "i", "l", "e", ".", "j", "s", "o", "n">>

\* x_2024_02_30_10_00_00.json: a timestamp on 30 February
NameNoSuchDay == <<"x", "_", "2", "0", "2", "4", "_", "0", "2", "_", "3", "0", "_", "1", "0", "_", "0", "0", "_", "0", "0", ".", "j", "s", "o", "n">>

\* a_2024_01_02_03_04_05_2025-06-07.json: a full timestamp, then another date
NameFullThenDate == <<"a", "_", "2", "0", "2", "4", "_", "0", "1", "_", "0", "2", "_", "0", "3", "_", "0", "4", "_", "0", "5", "_", "2", "0", "2", "5", "-", "0", "6", "-", "0", "7", ".", "j", "s", "o", "n">>

\* a_2025-06-07_2024_01_02_03_04_05.json: a date, then a full timestamp
NameDateThenFull == <<"a", "_", "2", "0", "2", "5", "-", "0", "6", "-", "0", "7", "_", "2", "0", "2", "4", "_", "0", "1", "_", "0", "2", "_", "0", "3", "_", "0", "4", "_", "0", "5", ".", "j", "s", "o", "n">>

\* a_2024-13-01_2024_01_05.json: a hyphenated date in month 13, then a date with underscores
NameBadDateThenDate == <<"a", "_", "2", "0", "2", "4", "-", "1", "3", "-", "0", "1", "_", "2", "0", "2", "4", "_", "0", "1", "_", "0", "5", ".", "j", "s", "o", "n">>

\* d_2024_0101_000000/weibo.json: a timestamp in the directory only
NameTimeInDirectory == <<"d", "_", "2", "0", "2", "4", "_", "0", "1", "0", "1", "_", "0", "0", "0", "0", "0", "0", "/", "w", "e", "i", "b", "o", ".", "j", "s", "o", "n">>

\* a_2024-01-02x.json: a date followed by a letter
NameDateNoEnd == <<"a", "_", "2", "0", "2", "4", "-", "0", "1", "-", "0", "2", "x", ".", "j", "s", "o", "n">>

\* kuaishou_2024-01-02.tar.json: a date followed by a dot inside the stem
NameDateDot == <<"k", "u", "a", "i", "s", "h", "o", "u", "_", "2", "0", "2", "4", "-", "0", "1", "-", "0", "2", ".", "t", "a", "r", ".", "j", "s", "o", "n">>

\* zhihu_dy.json: two platform names, no timestamp
NameTwoPlatforms == <<"z", "h", "i", "h", "u", "_", "d", "y", ".", "j", "s", "o", "n">>

TimeNames ==
    {NameScenarioFull, NameScenarioDate, NameCompact, NameHyphen,
     NameUnderscoreDate, NameNoTime, NameNoSuchDay, NameFullThenDate,
     NameDateThenFull, NameBadDateThenDate, NameTimeInDirectory, NameDateNoEnd,
     NameDateDot, NameTwoPlatforms}

\* detect_platform_from_filename and the name's capture time for the file
\* names above, evaluated once per name
PlatformFromName == [name \in FileNames \cup TimeNames |-> DetectPlatformFromFilename(name)]

TimeFromName == [name \in FileNames \cup TimeNames |-> FilenameTime(name)]

\* extract_crawl_time_from_filename: the name's time, else the modification
\* time of the file if it exists, else None
ExtractCrawlTimeFromFilename(files, filename) ==
    IF TimeFromName[filename] # NoTime THEN TimeFromName[filename]
    ELSE IF filename \in DOMAIN files /\ files[filename].kind # "missing"
         THEN files[filename].mtime
    ELSE NoTime

----------------------------------------------------------------------------
(* Raw records, platform detection and the record builders *)

\* A JSON object is a function from its keys to tagged values. The model
\* reads the fields named here; a record has no other field the builders
\* validate, so those take their defaults.
Has(data, name) == name \in DOMAIN data

\* data.get(name, default)
Get(data, name, default) == IF Has(data, name) THEN data[name] ELSE default

\* Python's == on two scalars: values of different types are unequal
PyEq(a, b) == a.t = b.t /\ a.v = b.v

\* _get_field: the first of field_names that is present and not None
GetField(data, field_names, default) ==
    LET hits == {n \in DOMAIN field_names :
                    Has(data, field_names[n]) /\ data[field_names[n]].t # "null"}
    IN  IF hits = {} THEN default ELSE data[field_names[FirstOf(hits)]]

\* PLATFORM_SIGNATURES: platform and its content_id_fields, in dict order
PlatformSignatures ==
    <<<<"dy", <<"aweme_id">>>>,
      <<"xhs", <<"note_id">>>>,
      <<"bili", <<"bvid", "video_id">>>>,
      <<"ks", <<"photo_id", "work_id">>>>,
      <<"wb", <<"mid", "weibo_id">>>>,
      <<"tieba", <<"thread_id", "post_id">>>>,
      <<"zhihu", <<"question_id", "answer_id">>>>>>

DetectPlatformLastMatch(data) ==
    LET hits == {n \in DOMAIN PlatformSignatures :
                    \E k \in DOMAIN PlatformSignatures[n][2] :
                       Has(data, PlatformSignatures[n][2][k])}
    IN  IF hits = {} THEN NoPlatform
        ELSE PlatformSignatures[CHOOSE n \in hits : \A m \in hits : m <= n][1]

DetectPlatformNoteFirst(data) ==
    IF Has(data, "comment_id") /\ Has(data, "note_id") THEN "xhs"
    ELSE IF Has(data, "comment_id") /\ Has(data, "aweme_id") THEN "dy"
    ELSE LET hits == {n \in DOMAIN PlatformSignatures :
                         \E k \in DOMAIN PlatformSignatures[n][2] :
                            Has(data, PlatformSignatures[n][2][k])}
         IN  IF hits = {} THEN NoPlatform ELSE PlatformSignatures[FirstOf(hits)][1]

\* detect_platform on a dict
DetectPlatform(data) ==
    IF Has(data, "comment_id") /\ Has(data, "aweme_id") THEN "dy"
    ELSE IF Has(data, "comment_id") /\ Has(data, "note_id") THEN "xhs"
    ELSE LET hits == {n \in DOMAIN PlatformSignatures :
                         \E k \in DOMAIN PlatformSignatures[n][2] :
                            Has(data, PlatformSignatures[n][2][k])}
         IN  IF hits = {} THEN NoPlatform ELSE PlatformSignatures[FirstOf(hits)][1]

\* int(v) for the numeric strings of the model; any other string raises
\* ValueError
IntOfStr == ("0" :> 0) @@ ("100" :> 100) @@ ("1000" :> 1000) @@ ("-5" :> -5)

\* str(v) of an int
StrOfInt == (0 :> "0") @@ (7 :> "7") @@ (789 :> "789")

\* Post.parse_count / Comment.parse_count
ParseCount(v) ==
    IF v.t = "null" THEN 0
    ELSE IF v.t = "int" THEN v.v
    ELSE IF v.t = "str"
         THEN (IF v.v # "" /\ v.v \in DOMAIN IntOfStr THEN IntOfStr[v.v] ELSE 0)
    ELSE 0

\* bool(v)
Truthy(v) ==
    IF v.t = "null" THEN FALSE
    ELSE IF v.t = "int" THEN v.v # 0
    ELSE v.v # ""

\* str(v) of a str or an int
PyStr(v) == IF v.t = "int" THEN StrOfInt[v.v] ELSE v.v

\* An Optional[Post] / Optional[Comment] is <<>> (None) or <<record>>.
\* A builder gives <<>> where the call raises: pydantic rejects a value
\* that is not a str for a str field.
NewPost(content_id, platform, liked_count) ==
    IF content_id.t # "str" THEN <<>>
    ELSE <<[content_id |-> content_id.v, platform |-> platform,
            liked_count |-> liked_count, crawl_time |-> NoTime, source_file |-> <<>>]>>

NewComment(comment_id, content_id, platform, content, like_count, parent_comment_id, is_sub_comment) ==
    IF \/ comment_id.t # "str"
       \/ content_id.t # "str"
       \/ content.t # "str"
       \/ parent_comment_id.t \notin {"str", "null"}
    THEN <<>>
    ELSE <<[comment_id |-> comment_id.v, content_id |-> content_id.v,
            platform |-> platform, like_count |-> like_count,
            parent_comment_id |-> parent_comment_id,
            is_sub_comment |-> is_sub_comment,
            crawl_time |-> NoTime, source_file |-> <<>>]>>

ParseDouyinPost(data) ==
    NewPost(GetField(data, <<"aweme_id">>, JStr("")), "dy",
            ParseCount(Get(data, "liked_count", JInt(0))))

DouyinComment(data, parent_id) ==
    NewComment(GetField(data, <<"comment_id", "cid">>, JStr("")),
               GetField(data, <<"aweme_id">>, JStr("")),
               "dy",
               Get(data, "content", JStr("")),
               ParseCount(Get(data, "like_count", JInt(0))),
               IF ~PyEq(parent_id, JStr("0")) THEN parent_id ELSE Null,
               parent_id.t # "null" /\ ~PyEq(parent_id, JStr("0")))

ParseDouyinComment(data) ==
    DouyinComment(data, Get(data, "parent_comment_id", JStr("0")))

ParseXhsPost(data) ==
    NewPost(GetField(data, <<"note_id">>, JStr("")), "xhs",
            ParseCount(Get(data, "liked_count", JInt(0))))

XhsComment(data, parent_id) ==
    NewComment(GetField(data, <<"comment_id", "id">>, JStr("")),
               GetField(data, <<"note_id">>, JStr("")),
               "xhs",
               Get(data, "content", JStr("")),
               ParseCount(Get(data, "like_count", JInt(0))),
               IF Truthy(parent_id) THEN JStr(PyStr(parent_id)) ELSE Null,
               parent_id.t # "null" /\ ~PyEq(parent_id, JInt(0)))

ParseXhsComment(data) ==
    XhsComment(data, Get(data, "parent_comment_id", JInt(0)))

\* _parse_bilibili_post and _parse_bilibili_comment pass user_id= and also
\* **common, which holds "user_id": the call raises TypeError on every input.
ParseBilibiliPost(data) == <<>>

ParseBilibiliComment(data) == <<>>

\* POST_PARSERS / COMMENT_PARSERS
PostParserPlatforms == {"dy", "xhs", "bili"}

CommentParserPlatforms == {"dy", "xhs", "bili"}

\* `if platform is None: platform = detect_platform(data)`
PlatformOrDetected(data, platform) ==
    IF platform = NoPlatform THEN DetectPlatform(data) ELSE platform

\* What a call does: it returns a value, or raises
Returned(value) == [raised |-> "", value |-> value]

Raised(exception) == [raised |-> exception, value |-> <<>>]

TryUncaught(built) == IF built = <<>> THEN Raised("Exception") ELSE Returned(built)

\* `try: return PARSERS[platform](data)` / `except Exception: return None`,
\* given what the builder did (<<>> where it raised)
Try(built) == Returned(built)

\* The last two statements of parse_post, on a dict
PostOutcome(data, platform) ==
    IF platform = NoPlatform \/ platform \notin PostParserPlatforms THEN Returned(<<>>)
    ELSE IF platform = "dy" THEN Try(ParseDouyinPost(data))
    ELSE IF platform = "xhs" THEN Try(ParseXhsPost(data))
    ELSE Try(ParseBilibiliPost(data))

\* The last two statements of parse_comment, on a dict
CommentOutcome(data, platform) ==
    IF platform = NoPlatform \/ platform \notin CommentParserPlatforms THEN Returned(<<>>)
    ELSE IF platform = "dy" THEN Try(ParseDouyinComment(data))
    ELSE IF platform = "xhs" THEN Try(ParseXhsComment(data))
    ELSE Try(ParseBilibiliComment(data))

\* What parse_post / parse_comment return on a dict once the platform is known
BuildPost(data, platform) == PostOutcome(data, platform).value

BuildComment(data, platform) == CommentOutcome(data, platform).value

\* parse_post(data, platform) / parse_comment(data, platform) on any JSON
\* value: what the call does
ParsePostCall(record, platform) ==
    IF record.t # "dict" THEN Returned(<<>>)
    ELSE PostOutcome(record.v, PlatformOrDetected(record.v, platform))

ParseCommentCall(record, platform) ==
    IF record.t # "dict" THEN Returned(<<>>)
    ELSE CommentOutcome(record.v, PlatformOrDetected(record.v, platform))

\* detect_platform(data) on any JSON value
DetectPlatformCall(record) ==
    IF record.t # "dict" THEN NoPlatform ELSE DetectPlatform(record.v)

\* parse_post(data, platform) on a dict; platform may be NoPlatform
ParsePost(data, platform) == BuildPost(data, PlatformOrDetected(data, platform))

\* parse_comment(data, platform) on a dict
ParseComment(data, platform) == BuildComment(data, PlatformOrDetected(data, platform))

----------------------------------------------------------------------------
(* parse_json_file and parse_json_files *)

\* An element of the JSON array is [t |-> "dict", v |-> the object] or a
\* tagged scalar. An entry of `errors` keeps the parts of the message: the
\* 1-based record index of a record-level error, or the path that prefixes
\* a file-level one.
RecordError(n, msg) == [path |-> <<>>, idx |-> n, msg |-> msg]

FileError(file_path, msg) == [path |-> file_path, idx |-> 0, msg |-> msg]

StampCrawlTimeOnly(record, crawl_time, source_file) ==
    [record EXCEPT !.crawl_time = crawl_time]

StampSourceFileOnly(record, crawl_time, source_file) ==
    [record EXCEPT !.source_file = source_file]

\* `if crawl_time or source_file:` and the two assignments under it
Stamp(record, crawl_time, source_file) ==
    IF crawl_time # NoTime \/ source_file # <<>>
    THEN [record EXCEPT !.crawl_time = crawl_time, !.source_file = source_file]
    ELSE record

LastDetected(acc, record) == record.platform

\* `if detected_platform is None: detected_platform = record.platform`
FirstDetected(acc, record) ==
    IF acc.detected_platform = NoPlatform THEN record.platform
    ELSE acc.detected_platform

\* The `if is_comment:` branch, given what parse_comment returned
AddComment(acc, n, comment, crawl_time, source_file) ==
    IF comment = <<>>
    THEN [acc EXCEPT !.errors = Append(@, RecordError(n, "unrecognized"))]
    ELSE [acc EXCEPT !.comments = Append(@, Stamp(comment[1], crawl_time, source_file)),
                     !.detected_platform = FirstDetected(acc, comment[1])]

\* The `else:` branch, given what parse_post returned
AddPost(acc, n, post, crawl_time, source_file) ==
    IF post = <<>>
    THEN [acc EXCEPT !.errors = Append(@, RecordError(n, "unrecognized"))]
    ELSE [acc EXCEPT !.posts = Append(@, Stamp(post[1], crawl_time, source_file)),
                     !.detected_platform = FirstDetected(acc, post[1])]

\* `is_comment = "comment_id" in record or (...)`
IsComment(data) ==
    \/ Has(data, "comment_id")
    \/ (Has(data, "content") /\ Has(data, "parent_comment_id"))

DetectedForStructureFirst(data, platform_from_name) ==
    IF DetectPlatform(data) # NoPlatform THEN DetectPlatform(data)
    ELSE platform_from_name

\* `detected = platform_from_name or detect_platform(record)`
DetectedFor(data, platform_from_name) ==
    IF platform_from_name # NoPlatform THEN platform_from_name
    ELSE DetectPlatform(data)

AddBuiltRetriesAsPost(acc, n, data, detected, crawl_time, source_file) ==
    IF IsComment(data) /\ ParseComment(data, detected) # <<>>
    THEN AddComment(acc, n, ParseComment(data, detected), crawl_time, source_file)
    ELSE AddPost(acc, n, ParsePost(data, detected), crawl_time, source_file)

\* The two branches of the loop body
AddBuilt(acc, n, data, detected, crawl_time, source_file) ==
    IF IsComment(data)
    THEN AddComment(acc, n, ParseComment(data, detected), crawl_time, source_file)
    ELSE AddPost(acc, n, ParsePost(data, detected), crawl_time, source_file)

\* The body of `for idx, record in enumerate(data)` for element n = idx + 1
\* when the element is a dict; acc holds posts, comments, errors and
\* detected_platform.
ParseRecordDict(acc, n, record, platform_from_name, crawl_time, source_file) ==
    AddBuilt(acc, n, record.v, DetectedFor(record.v, platform_from_name),
             crawl_time, source_file)

ParseRecordDropsNonDict(acc, n, record, platform_from_name, crawl_time, source_file) ==
    IF record.t # "dict" THEN acc
    ELSE ParseRecordDict(acc, n, record, platform_from_name, crawl_time, source_file)

ParseRecord(acc, n, record, platform_from_name, crawl_time, source_file) ==
    IF record.t # "dict"
    THEN [acc EXCEPT !.errors = Append(@, RecordError(n, "not a dict"))]
    ELSE ParseRecordDict(acc, n, record, platform_from_name, crawl_time, source_file)

RECURSIVE ParseRecords(_, _, _, _, _)
ParseRecords(data, n, platform_from_name, crawl_time, source_file) ==
    IF n = 0
    THEN [posts |-> <<>>, comments |-> <<>>, errors |-> <<>>,
          detected_platform |-> NoPlatform]
    ELSE ParseRecord(ParseRecords(data, n - 1, platform_from_name, crawl_time, source_file),
                     n, data[n], platform_from_name, crawl_time, source_file)

\* A file is [kind, data, mtime]: kind "missing" (no such file), "malformed"
\* (json.load raises), "scalar" (JSON that is neither object nor array),
\* "object" (data = the one object) or "array" (data = its elements).
\* `if isinstance(data, dict): data = [data]`
AsList(f) == IF f.kind = "object" THEN <<[t |-> "dict", v |-> f.data]>> ELSE f.data

\* `if deduplicate and (posts or comments): result = result.deduplicate()`
MaybeDeduplicated(result, deduplicate) ==
    IF deduplicate /\ (Len(result.posts) > 0 \/ Len(result.comments) > 0)
    THEN Deduplicate(result)
    ELSE result

\* The ParsedData that parse_json_file builds after its loop
FileResult(acc, total_records) ==
    ParsedData(acc.posts, acc.comments, acc.detected_platform, total_records,
               Len(acc.posts) + Len(acc.comments), Len(acc.errors), acc.errors)

ParseList(data, file_path, crawl_time, deduplicate) ==
    MaybeDeduplicated(
        FileResult(ParseRecords(data, Len(data), PlatformFromName[file_path],
                                crawl_time, file_path),
                   Len(data)),
        deduplicate)

\* parse_json_file(file_path, deduplicate)
ParseJsonFile(files, file_path, deduplicate) ==
    IF files[file_path].kind = "missing" THEN Raised("FileNotFoundError")
    ELSE IF files[file_path].kind = "malformed" THEN Raised("JSONDecodeError")
    ELSE IF files[file_path].kind = "scalar" THEN Raised("ValueError")
    ELSE Returned(ParseList(AsList(files[file_path]), file_path,
                            ExtractCrawlTimeFromFilename(files, file_path),
                            deduplicate))

\* `all_posts.extend(...)` and the lines after it, for a call that returned
Extended(acc, data) ==
    [all_posts |-> acc.all_posts \o data.posts,
     all_comments |-> acc.all_comments \o data.comments,
     all_errors |-> acc.all_errors \o data.errors,
     total_records |-> acc.total_records + data.total_records,
     detected_platform |-> IF acc.detected_platform = NoPlatform
                           THEN data.platform
                           ELSE acc.detected_platform,
     raised |-> ""]

MergeFileCountsBadFile(acc, file_path, r) ==
    IF r.raised # ""
    THEN [acc EXCEPT !.all_errors = Append(@, FileError(file_path, r.raised)),
                     !.total_records = @ + 1]
    ELSE Extended(acc, r.value)

MergeFileNoBoundary(acc, file_path, r) ==
    IF r.raised # "" \/ acc.raised # ""
    THEN [acc EXCEPT !.raised = IF acc.raised # "" THEN acc.raised ELSE r.raised]
    ELSE Extended(acc, r.value)

\* The body of `for file_path in file_paths`, with its try/except, given
\* what parse_json_file did
MergeFile(acc, file_path, r) ==
    IF r.raised # ""
    THEN [acc EXCEPT !.all_errors = Append(@, FileError(file_path, r.raised))]
    ELSE Extended(acc, r.value)

RECURSIVE MergeFiles(_, _, _)
MergeFiles(files, file_paths, n) ==
    IF n = 0
    THEN [all_posts |-> <<>>, all_comments |-> <<>>, all_errors |-> <<>>,
          total_records |-> 0, detected_platform |-> NoPlatform, raised |-> ""]
    ELSE MergeFile(MergeFiles(files, file_paths, n - 1), file_paths[n],
                   ParseJsonFile(files, file_paths[n], FALSE))

\* The ParsedData that parse_json_files builds after its loop
MergedData(acc) ==
    ParsedData(acc.all_posts, acc.all_comments, acc.detected_platform,
               acc.total_records, Len(acc.all_posts) + Len(acc.all_comments),
               Len(acc.all_errors), acc.all_errors)

Merged(acc, deduplicate) ==
    IF acc.raised # "" THEN Raised(acc.raised)
    ELSE Returned(MaybeDeduplicated(MergedData(acc), deduplicate))

\* parse_json_files(file_paths, deduplicate)
ParseJsonFiles(files, file_paths, deduplicate) ==
    Merged(MergeFiles(files, file_paths, Len(file_paths)), deduplicate)

----------------------------------------------------------------------------
(* Bounds and inputs of SpecParse *)

MaxElems == 3        \* elements of the array when one file is on disk
MaxPairElems == 2    \* elements of both arrays together when two files are on disk
MaxPaths == 2        \* paths given to parse_json_files

\* st_mtime of every file on disk
Mtime == <<2024, 1, 17, 9, 0, 0>>

Dict(data) == [t |-> "dict", v |-> data]

PostA100 == Dict(("aweme_id" :> JStr("a")) @@ ("liked_count" :> JInt(100)))
PostA200 == Dict(("aweme_id" :> JStr("a")) @@ ("liked_count" :> JInt(200)))
NotADict == JStr("not a dict")
CommentC == Dict(("comment_id" :> JStr("c")) @@ ("aweme_id" :> JStr("a"))
                 @@ ("content" :> JStr("hi")) @@ ("parent_comment_id" :> JStr("0")))
UnknownFields == Dict("unknown_field" :> JInt(1))
PostIntId == Dict("aweme_id" :> JInt(7))
KsPost == Dict("photo_id" :> JStr("k"))
XhsPost == Dict(("note_id" :> JStr("a")) @@ ("liked_count" :> JStr("1000")))

FewElementInputs == {PostA100, PostA200, NotADict, CommentC}

\* A comment whose comment_id is a number: the comment builder fails on it,
\* the post builder would not
CommentIntId == Dict(("comment_id" :> JInt(7)) @@ ("aweme_id" :> JStr("a")))

\* A reply without comment_id: content and parent_comment_id make it a comment
ReplyNoId == Dict(("content" :> JStr("hi")) @@ ("parent_comment_id" :> JStr("789"))
                  @@ ("aweme_id" :> JStr("a")))

ElementInputs ==
    FewElementInputs \cup {UnknownFields, PostIntId, KsPost, XhsPost, CommentIntId, ReplyNoId}

File(kind, data) == [kind |-> kind, data |-> data, mtime |-> Mtime]

UnusableFiles == {File("missing", <<>>), File("malformed", <<>>), File("scalar", <<>>)}

\* Arrays of up to MaxElems elements under a name with a platform hint and
\* under one without; one element at most under the other names
ArrayBound(name) == IF name \in {NameEarly, NamePlain} THEN MaxElems ELSE 1

\* One file on disk, or two
InitParse ==
    /\ \/ \E name \in FileNames :
             \/ \E f \in UnusableFiles : fs = (name :> f)
             \/ \E e \in ElementInputs : e.t = "dict" /\ fs = (name :> File("object", e.v))
             \/ \E n \in 0..ArrayBound(name) : \E data \in [1..n -> ElementInputs] :
                   fs = (name :> File("array", data))
       \/ \E names \in NamePairs :
          \E n1 \in 0..MaxPairElems : \E n2 \in 0..(MaxPairElems - n1) :
          \E d1 \in [1..n1 -> FewElementInputs] : \E d2 \in [1..n2 -> FewElementInputs] :
          \E f1 \in UnusableFiles \cup {File("array", d1)} :
          \E f2 \in UnusableFiles \cup {File("array", d2)} :
             fs = (names[1] :> f1) @@ (names[2] :> f2)
    /\ heap = <<>>
    /\ origin = <<>>
    /\ os = NoOs
    /\ runner = NoRunner
    /\ ret = NoCall

\* What a call leaves: the returned ParsedData as a new object, or nothing
\* but the exception
AfterCall(op, args, deduplicate, r) ==
    /\ heap' = IF r.raised = "" THEN Append(heap, r.value) ELSE heap
    /\ origin' = IF r.raised = "" THEN Append(origin, 0) ELSE origin
    /\ ret' = [op |-> op, args |-> args, deduplicate |-> deduplicate,
               raised |-> r.raised,
               out |-> IF r.raised = "" THEN Len(heap) + 1 ELSE 0]
    /\ UNCHANGED <<fs, os, runner>>

\* result = parse_json_file(file_path, deduplicate)
CallParseJsonFile ==
    /\ ret = NoCall
    /\ \E file_path \in DOMAIN fs : \E deduplicate \in BOOLEAN :
          AfterCall("parse_json_file", <<file_path>>, deduplicate,
                    ParseJsonFile(fs, file_path, deduplicate))

\* result = parse_json_files(file_paths, deduplicate)
CallParseJsonFiles ==
    /\ ret = NoCall
    /\ \E n \in 0..MaxPaths : \E file_paths \in [1..n -> DOMAIN fs] :
       \E deduplicate \in BOOLEAN :
          AfterCall("parse_json_files", file_paths, deduplicate,
                    ParseJsonFiles(fs, file_paths, deduplicate))

NextParse == CallParseJsonFile \/ CallParseJsonFiles

SpecParse == InitParse /\ [][NextParse]_vars

----------------------------------------------------------------------------
(* Bounds and inputs of SpecRecord: parse_post, parse_comment and          *)
(* detect_platform on one raw value                                        *)

MaxKeys == 2         \* keys of a record drawn for its key set alone

\* Every content_id field of PLATFORM_SIGNATURES, comment_id, and a key that
\* no signature names
DetectKeys ==
    {"aweme_id", "note_id", "bvid", "video_id", "photo_id", "work_id", "mid",
     "weibo_id", "thread_id", "post_id", "question_id", "answer_id",
     "comment_id", "title"}

KeySetRecords ==
    {Dict([k \in K |-> JStr("a")]) : K \in {S \in SUBSET DetectKeys : Cardinality(S) <= MaxKeys}}

\* The content_id field each comment builder reads first
CommentContentField == {"aweme_id", "note_id", "bvid"}

\* parent_comment_id as the crawlers write it: no parent is "0" or 0, a
\* parent is its id
ParentValues == {Null, JStr("0"), JInt(0), JStr("789"), JInt(789), JStr("")}

BareComment(field) ==
    ("comment_id" :> JStr("c")) @@ (field :> JStr("a")) @@ ("content" :> JStr("hi"))

CommentRecords ==
    {Dict(BareComment(f)) : f \in CommentContentField}
    \cup {Dict(BareComment(f) @@ ("parent_comment_id" :> v)) :
             f \in CommentContentField, v \in ParentValues}

\* Identifier fields holding "", null or a number, and the aliases cid / id
IdValues == {JStr(""), Null, JInt(7)}

IdRecords ==
    {Dict(f :> v) : f \in {"aweme_id", "note_id", "bvid", "video_id"}, v \in IdValues}
    \cup {Dict((a :> v) @@ (f :> JStr("a"))) :
             a \in {"comment_id", "cid", "id", "rpid"}, f \in CommentContentField,
             v \in IdValues \cup {JStr("c2")}}
    \cup {Dict(("comment_id" :> v) @@ ("cid" :> JStr("c2")) @@ ("aweme_id" :> JStr("a"))) :
             v \in {Null, JStr("")}}

ScalarInputs == {Null, JStr("not a dict"), JInt(7)}

\* Raw counter values: null, integers, numeric strings, the empty string and
\* a string that is not a number
CountValues ==
    {Null, JInt(0), JInt(100), JInt(-5), JStr("100"), JStr("-5"), JStr(""), JStr("abc")}

CountRecords ==
    {Dict((f :> JStr("a")) @@ ("liked_count" :> v)) :
        f \in {"aweme_id", "note_id"}, v \in CountValues}

\* Comments that carry the content-id fields of two platforms
MixedCommentRecords ==
    {Dict(BareComment(p[1]) @@ (p[2] :> JStr("b"))) :
        p \in {q \in CommentContentField \X CommentContentField : q[1] # q[2]}}

RecordInputs ==
    KeySetRecords \cup CommentRecords \cup MixedCommentRecords \cup IdRecords
        \cup CountRecords \cup ScalarInputs

\* The arguments of the call to come
Pending(args) == [op |-> "none", args |-> args]

InitRecord ==
    /\ fs = <<>>
    /\ heap = <<>>
    /\ origin = <<>>
    /\ os = NoOs
    /\ runner = NoRunner
    /\ \E record \in RecordInputs : \E platform \in PlatformValues \cup {NoPlatform} :
          ret = Pending(<<record, platform>>)

Outcome(op, args, r) ==
    /\ ret' = [op |-> op, args |-> args, raised |-> r.raised, value |-> r.value]
    /\ UNCHANGED <<fs, heap, origin, os, runner>>

\* post = parse_post(data, platform)
CallParsePost ==
    /\ ret.op = "none"
    /\ Outcome("parse_post", ret.args, ParsePostCall(ret.args[1], ret.args[2]))

\* comment = parse_comment(data, platform)
CallParseComment ==
    /\ ret.op = "none"
    /\ Outcome("parse_comment", ret.args, ParseCommentCall(ret.args[1], ret.args[2]))

\* platform = detect_platform(data)
CallDetectPlatform ==
    /\ ret.op = "none"
    /\ Outcome("detect_platform", <<ret.args[1]>>, Returned(DetectPlatformCall(ret.args[1])))

NextRecord == CallParsePost \/ CallParseComment \/ CallDetectPlatform

SpecRecord == InitRecord /\ [][NextRecord]_vars

----------------------------------------------------------------------------
(* Inputs of SpecName: extract_crawl_time_from_filename and                *)
(* detect_platform_from_filename on one path                                *)

\* Another st_mtime
MtimeLater == <<2025, 3, 1, 8, 0, 0>>

\* The path names no file, or a file last modified at one of two times
FilesAt(name) ==
    {name :> File("missing", <<>>),
     name :> File("array", <<>>),
     name :> [File("array", <<>>) EXCEPT !.mtime = MtimeLater]}

InitName ==
    /\ \E name \in TimeNames : \E files \in FilesAt(name) :
          fs = files /\ ret = Pending(<<name>>)
    /\ heap = <<>>
    /\ origin = <<>>
    /\ os = NoOs
    /\ runner = NoRunner

\* crawl_time = extract_crawl_time_from_filename(filename)
CallExtractCrawlTimeFromFilename ==
    /\ ret.op = "none"
    /\ Outcome("extract_crawl_time_from_filename", ret.args,
               Returned(ExtractCrawlTimeFromFilename(fs, ret.args[1])))

\* platform = detect_platform_from_filename(filename)
CallDetectPlatformFromFilename ==
    /\ ret.op = "none"
    /\ Outcome("detect_platform_from_filename", ret.args,
               Returned(PlatformFromName[ret.args[1]]))

NextName == CallExtractCrawlTimeFromFilename \/ CallDetectPlatformFromFilename

SpecName == InitName /\ [][NextName]_vars

----------------------------------------------------------------------------
(* Claims about deduplicate() and deduplication_stats, under SpecDedup *)

\* The positions of `records` holding the same (platform, id) as position i
PostGroup(posts, i) ==
    {j \in DOMAIN posts : /\ posts[j].platform = posts[i].platform
                          /\ posts[j].content_id = posts[i].content_id}

CommentGroup(comments, i) ==
    {j \in DOMAIN comments : /\ comments[j].platform = comments[i].platform
                             /\ comments[j].comment_id = comments[i].comment_id}

\* The positions of the output holding the key of input position i
PostSurvivors(out, posts, i) ==
    {s \in DOMAIN out : /\ out[s].platform = posts[i].platform
                        /\ out[s].content_id = posts[i].content_id}

CommentSurvivors(out, comments, i) ==
    {s \in DOMAIN out : /\ out[s].platform = comments[i].platform
                        /\ out[s].comment_id = comments[i].comment_id}

Last(S) == CHOOSE j \in S : \A k \in S : k <= j

\* C1: after deduplicate(), for every key group of two or more posts (or
\* comments) whose members all have a capture time, a survivor of that key
\* exists and its capture time is the maximum of the group's, wherever the
\* latest member stands in the input list.
C1_SurvivorHasMaxCaptureTime ==
    ret.op = "deduplicate" =>
        LET inp == heap[ret.self]
            out == heap[ret.out]
        IN  /\ \A i \in DOMAIN inp.posts :
                 LET g == PostGroup(inp.posts, i)
                     sv == PostSurvivors(out.posts, inp.posts, i)
                 IN  (Cardinality(g) >= 2 /\ \A j \in g : inp.posts[j].crawl_time # NoTime)
                     => /\ sv # {}
                        /\ \A s \in sv :
                             /\ \E j \in g : out.posts[s].crawl_time = inp.posts[j].crawl_time
                             /\ \A j \in g : ~DtGreater(inp.posts[j].crawl_time,
                                                        out.posts[s].crawl_time)
            /\ \A i \in DOMAIN inp.comments :
                 LET g == CommentGroup(inp.comments, i)
                     sv == CommentSurvivors(out.comments, inp.comments, i)
                 IN  (Cardinality(g) >= 2 /\ \A j \in g : inp.comments[j].crawl_time # NoTime)
                     => /\ sv # {}
                        /\ \A s \in sv :
                             /\ \E j \in g : out.comments[s].crawl_time
                                                = inp.comments[j].crawl_time
                             /\ \A j \in g : ~DtGreater(inp.comments[j].crawl_time,
                                                        out.comments[s].crawl_time)

\* A group of three posts with capture times whose latest member comes
\* first, deduplicated to that member.
C1_Witness ==
    /\ ret.op = "deduplicate"
    /\ LET inp == heap[ret.self]
           out == heap[ret.out]
       IN  /\ Len(inp.posts) = 3
           /\ PostGroup(inp.posts, 1) = {1, 2, 3}
           /\ inp.posts[1].crawl_time = T2
           /\ inp.posts[2].crawl_time = T1
           /\ inp.posts[3].crawl_time = T1
           /\ out.posts = <<inp.posts[1]>>

\* C2: after deduplicate(), the output holds exactly one post for every
\* (platform, content_id) of the input posts and exactly one comment for
\* every (platform, comment_id) of the input comments, and every output
\* record is an input record.
C2_OneRecordPerKey ==
    ret.op = "deduplicate" =>
        LET inp == heap[ret.self]
            out == heap[ret.out]
        IN  /\ \A i \in DOMAIN inp.posts :
                 Cardinality(PostSurvivors(out.posts, inp.posts, i)) = 1
            /\ \A s \in DOMAIN out.posts :
                 /\ Cardinality(PostGroup(out.posts, s)) = 1
                 /\ \E i \in DOMAIN inp.posts : inp.posts[i] = out.posts[s]
            /\ \A i \in DOMAIN inp.comments :
                 Cardinality(CommentSurvivors(out.comments, inp.comments, i)) = 1
            /\ \A s \in DOMAIN out.comments :
                 /\ Cardinality(CommentGroup(out.comments, s)) = 1
                 /\ \E i \in DOMAIN inp.comments : inp.comments[i] = out.comments[s]

\* Two posts of one key next to a post with the same identifier on another
\* platform: two posts come out.
C2_Witness ==
    /\ ret.op = "deduplicate"
    /\ LET inp == heap[ret.self]
           out == heap[ret.out]
       IN  /\ Len(inp.posts) = 3
           /\ inp.posts[1].platform = "dy" /\ inp.posts[1].content_id = "a"
           /\ inp.posts[2].platform = "xhs" /\ inp.posts[2].content_id = "a"
           /\ inp.posts[3].platform = "dy" /\ inp.posts[3].content_id = "a"
           /\ Len(out.posts) = 2

\* C3: deduplicate() applied to a batch that deduplicate() returned gives an
\* equal batch (posts, comments, platform, counters, errors), and
\* deduplication_stats of a batch that deduplicate() returned is all zero.
C3_Idempotent ==
    /\ \A i \in DOMAIN heap :
         (origin[i] # 0 /\ origin[origin[i]] # 0) => heap[i] = heap[origin[i]]
    /\ (ret.op = "deduplication_stats" /\ origin[ret.self] # 0)
         => /\ ret.stats.duplicate_posts = 0
            /\ ret.stats.duplicate_comments = 0
            /\ ret.stats.total_duplicates = 0

\* A batch with duplicates, deduplicated twice, and the statistics of the
\* second result read.
C3_Witness ==
    /\ Len(heap) = 3
    /\ origin = <<0, 1, 2>>
    /\ Len(heap[2].posts) < Len(heap[1].posts)
    /\ Len(heap[1].comments) = 1
    /\ ret.op = "deduplication_stats"
    /\ ret.self = 3

\* C4: at every iteration of the scan, a record that shares its key with the
\* retained candidate replaces it when either of the two has no capture
\* time; and a key group none of whose members has a capture time is
\* survived by its last member.
C4_MissingTimeLastWins ==
    ret.op = "deduplicate" =>
        LET inp == heap[ret.self]
            out == heap[ret.out]
        IN  /\ \A n \in DOMAIN inp.posts :
                 LET before == PostScan(inp.posts, n - 1)
                     after == PostScan(inp.posts, n)
                     new == inp.posts[n]
                 IN  \A j \in DOMAIN before :
                        ( /\ before[j].platform = new.platform
                          /\ before[j].content_id = new.content_id
                          /\ (before[j].crawl_time = NoTime \/ new.crawl_time = NoTime) )
                        => after[j] = new
            /\ \A n \in DOMAIN inp.comments :
                 LET before == CommentScan(inp.comments, n - 1)
                     after == CommentScan(inp.comments, n)
                     new == inp.comments[n]
                 IN  \A j \in DOMAIN before :
                        ( /\ before[j].platform = new.platform
                          /\ before[j].comment_id = new.comment_id
                          /\ (before[j].crawl_time = NoTime \/ new.crawl_time = NoTime) )
                        => after[j] = new
            /\ \A i \in DOMAIN inp.posts :
                 LET g == PostGroup(inp.posts, i)
                 IN  (\A j \in g : inp.posts[j].crawl_time = NoTime)
                     => \A s \in PostSurvivors(out.posts, inp.posts, i) :
                           out.posts[s] = inp.posts[Last(g)]
            /\ \A i \in DOMAIN inp.comments :
                 LET g == CommentGroup(inp.comments, i)
                 IN  (\A j \in g : inp.comments[j].crawl_time = NoTime)
                     => \A s \in CommentSurvivors(out.comments, inp.comments, i) :
                           out.comments[s] = inp.comments[Last(g)]

\* Two posts of one key without capture times and with different like
\* counts: the second one is kept. (The first, with a capture time before
\* them, is replaced by a record that has none.)
C4_Witness ==
    /\ ret.op = "deduplicate"
    /\ LET inp == heap[ret.self]
           out == heap[ret.out]
       IN  /\ Len(inp.posts) = 3
           /\ PostGroup(inp.posts, 1) = {1, 2, 3}
           /\ inp.posts[1].crawl_time = T2
           /\ inp.posts[2].crawl_time = NoTime
           /\ inp.posts[3].crawl_time = NoTime
           /\ inp.posts[2].liked_count # inp.posts[3].liked_count
           /\ out.posts = <<inp.posts[3]>>

\* C5: deduplication_stats reports, for posts and for comments, the sum over
\* the keys of (occurrences of the key - 1), i.e. the number of records
\* minus the number of distinct keys, and their sum as total_duplicates.
C5_StatsCountExtraOccurrences ==
    ret.op = "deduplication_stats" =>
        LET b == heap[ret.self]
            post_keys == {<<b.posts[i].platform, b.posts[i].content_id>> :
                             i \in DOMAIN b.posts}
            comment_keys == {<<b.comments[i].platform, b.comments[i].comment_id>> :
                                i \in DOMAIN b.comments}
        IN  /\ ret.stats.duplicate_posts = Len(b.posts) - Cardinality(post_keys)
            /\ ret.stats.duplicate_comments = Len(b.comments) - Cardinality(comment_keys)
            /\ ret.stats.total_duplicates
                 = ret.stats.duplicate_posts + ret.stats.duplicate_comments

\* C6: the batch deduplicate() returns has success_count = its posts + its
\* comments, and the total_records, error_count, errors and platform of the
\* batch it was called on.
C6_CountersOfResult ==
    ret.op = "deduplicate" =>
        LET inp == heap[ret.self]
            out == heap[ret.out]
        IN  /\ out.success_count = Len(out.posts) + Len(out.comments)
            /\ out.total_records = inp.total_records
            /\ out.error_count = inp.error_count
            /\ out.errors = inp.errors
            /\ out.platform = inp.platform

\* A batch with counters of an ingestion and duplicates: success_count
\* changes, the rest is carried over.
C6_Witness ==
    /\ ret.op = "deduplicate"
    /\ LET inp == heap[ret.self]
           out == heap[ret.out]
       IN  /\ inp.total_records = 5
           /\ inp.errors # <<>>
           /\ inp.success_count = 4
           /\ out.success_count = 2
           /\ Len(inp.posts) + Len(inp.comments) = 3

\* C7: a call of deduplicate() or deduplication_stats leaves every existing
\* batch, the one it is called on included, as it was, and the batch
\* deduplicate() returns is a new object.
C7_InputNotMutated ==
    [][ /\ \A i \in DOMAIN heap : i \in DOMAIN heap' /\ heap'[i] = heap[i]
        /\ ret'.op = "deduplicate"
             => (ret'.out \notin DOMAIN heap /\ ret'.out # ret'.self) ]_vars

\* deduplicate() returned a batch that differs from the one it was called
\* on, which is still there with its duplicates.
C7_Witness ==
    /\ ret.op = "deduplicate"
    /\ ret.self = 1
    /\ Len(heap[ret.out].posts) < Len(heap[1].posts)
    /\ Len(heap[1].posts) = 3

----------------------------------------------------------------------------
(* Claims about parse_json_file and parse_json_files, under SpecParse *)

\* The file at a path cannot be ingested: it is missing, is not JSON, or its
\* top level is neither an object nor an array
Unusable(file_path) == fs[file_path].kind \in {"missing", "malformed", "scalar"}

\* The number of input elements of a usable file: an object is one element
ElementCount(file_path) ==
    IF fs[file_path].kind = "object" THEN 1 ELSE Len(fs[file_path].data)

\* What parse_json_file(file_path, deduplicate=False) returns for a usable file
Single(file_path) == ParseJsonFile(fs, file_path, FALSE).value

IndicesDistinct(errors) ==
    \A i \in DOMAIN errors : \A j \in DOMAIN errors :
        errors[i].idx = errors[j].idx => i = j

CountsAccountFor(out, n) ==
    /\ out.total_records = n
    /\ out.success_count = Len(out.posts) + Len(out.comments)
    /\ out.error_count = Len(out.errors)
    /\ out.success_count + out.error_count = out.total_records
    /\ \A i \in DOMAIN out.errors : out.errors[i].idx \in 1..n
    /\ IndicesDistinct(out.errors)

\* C8: for a readable file whose top level is an object or an array,
\* parse_json_file(path, deduplicate=False) returns a batch whose
\* total_records is the number of input elements, whose success_count is
\* len(posts) + len(comments), whose error_count is len(errors), and with
\* success_count + error_count = total_records; the errors name distinct
\* elements of the input, so every element gives one record or one error.
C8_EveryElementCounted ==
    (/\ ret.op = "parse_json_file"
     /\ ~ret.deduplicate
     /\ ~Unusable(ret.args[1]))
    => /\ ret.raised = ""
       /\ ret.out \in DOMAIN heap
       /\ CountsAccountFor(heap[ret.out], ElementCount(ret.args[1]))

\* Scenario D on a file without a platform in its name: an element with
\* unknown fields, an element that is not a dict, and a post.
C8_Witness ==
    /\ ret.op = "parse_json_file"
    /\ ~ret.deduplicate
    /\ fs[ret.args[1]].kind = "array"
    /\ fs[ret.args[1]].data = <<UnknownFields, NotADict, PostA100>>
    /\ heap[ret.out].total_records = 3
    /\ heap[ret.out].success_count = 1
    /\ heap[ret.out].error_count = 2

\* What the claim expects of the merged batch: each unusable path gives one
\* error carrying that path, each usable path gives its own posts, comments,
\* errors and total_records, in the order of the paths.
ExpectedAfter(acc, file_path, unusable, single) ==
    IF unusable
    THEN [acc EXCEPT !.errors = Append(@, <<file_path, 0>>)]
    ELSE [posts |-> acc.posts \o single.posts,
          comments |-> acc.comments \o single.comments,
          errors |-> acc.errors \o [i \in DOMAIN single.errors |->
                                      <<single.errors[i].path, single.errors[i].idx>>],
          total_records |-> acc.total_records + single.total_records]

RECURSIVE Expected(_, _)
Expected(file_paths, n) ==
    IF n = 0
    THEN [posts |-> <<>>, comments |-> <<>>, errors |-> <<>>, total_records |-> 0]
    ELSE ExpectedAfter(Expected(file_paths, n - 1), file_paths[n],
                       Unusable(file_paths[n]), Single(file_paths[n]))

PostKeys(posts) == {PostKey(posts[i]) : i \in DOMAIN posts}

CommentKeys(comments) == {CommentKey(comments[i]) : i \in DOMAIN comments}

MergedAsExpected(out, expected, deduplicate) ==
    /\ [i \in DOMAIN out.errors |-> <<out.errors[i].path, out.errors[i].idx>>]
          = expected.errors
    /\ out.total_records = expected.total_records
    /\ ~deduplicate => (out.posts = expected.posts /\ out.comments = expected.comments)
    /\ PostKeys(out.posts) = PostKeys(expected.posts)
    /\ CommentKeys(out.comments) = CommentKeys(expected.comments)

\* C9: parse_json_files never raises because of a bad file. Each path that
\* is missing, malformed or neither object nor array adds one error carrying
\* that path, no record and nothing to total_records; the posts, comments
\* and errors of the other files are in the merged batch (every one of them
\* without deduplication, every key of them with it).
C9_BadFileIsOneError ==
    ret.op = "parse_json_files"
    => /\ ret.raised = ""
       /\ ret.out \in DOMAIN heap
       /\ MergedAsExpected(heap[ret.out], Expected(ret.args, Len(ret.args)),
                           ret.deduplicate)

\* An unusable file passed before a file with a record: one error for the
\* first path, and the record of the second is there.
C9_Witness ==
    /\ ret.op = "parse_json_files"
    /\ Len(ret.args) = 2
    /\ Unusable(ret.args[1])
    /\ ~Unusable(ret.args[2])
    /\ Len(heap[ret.out].errors) = 1
    /\ heap[ret.out].errors[1].path = ret.args[1]
    /\ Len(heap[ret.out].posts) + Len(heap[ret.out].comments) = 1
    /\ heap[ret.out].total_records = 1

\* Two distinct usable files, each holding one post, of one key, under names
\* that carry different capture times
TwoObservations(p, q) ==
    /\ p # q
    /\ ~Unusable(p) /\ ~Unusable(q)
    /\ TimeFromName[p] # NoTime /\ TimeFromName[q] # NoTime
    /\ TimeFromName[p] # TimeFromName[q]
    /\ Len(Single(p).posts) = 1 /\ Len(Single(q).posts) = 1
    /\ PostKey(Single(p).posts[1]) = PostKey(Single(q).posts[1])

Later(p, q) == IF DtGreater(TimeFromName[p], TimeFromName[q]) THEN p ELSE q

OnlyObservation(posts, observation) ==
    /\ Cardinality({i \in DOMAIN posts : PostKey(posts[i]) = PostKey(observation)}) = 1
    /\ \A i \in DOMAIN posts :
          PostKey(posts[i]) = PostKey(observation) => posts[i] = observation

\* C10: when two files each hold one post with the same (platform,
\* content_id) and their names carry different capture times,
\* parse_json_files with deduplicate=True returns exactly one post for that
\* key, and it is the post of the file with the later time in its name, in
\* whichever order the two paths are passed.
C10_LaterFileWins ==
    (/\ ret.op = "parse_json_files"
     /\ ret.deduplicate
     /\ Len(ret.args) = 2
     /\ TwoObservations(ret.args[1], ret.args[2]))
    => /\ ret.raised = ""
       /\ OnlyObservation(heap[ret.out].posts,
                          Single(Later(ret.args[1], ret.args[2])).posts[1])

\* The later file is passed first and holds another liked_count than the
\* earlier one: the post returned is the one of the first path.
C10_Witness ==
    /\ ret.op = "parse_json_files"
    /\ ret.deduplicate
    /\ ret.args = <<NameLate, NameEarly>>
    /\ fs[NameLate].kind = "array" /\ fs[NameLate].data = <<PostA200>>
    /\ fs[NameEarly].kind = "array" /\ fs[NameEarly].data = <<PostA100>>
    /\ Len(heap[ret.out].posts) = 1
    /\ heap[ret.out].posts[1].liked_count = 200
    /\ heap[ret.out].posts[1].source_file = NameLate

----------------------------------------------------------------------------
(* Claims about parse_post, parse_comment and detect_platform, under       *)
(* SpecRecord                                                               *)

\* What the registered builder of a platform does with a dict: its record,
\* or <<>> where it fails
BuilderOf(op, platform, data) ==
    IF op = "parse_post"
    THEN (IF platform = "dy" THEN ParseDouyinPost(data)
          ELSE IF platform = "xhs" THEN ParseXhsPost(data)
          ELSE ParseBilibiliPost(data))
    ELSE (IF platform = "dy" THEN ParseDouyinComment(data)
          ELSE IF platform = "xhs" THEN ParseXhsComment(data)
          ELSE ParseBilibiliComment(data))

Registered == {"dy", "xhs", "bili"}

NullOrBuilt(op, record, platform, value) ==
    IF record.t # "dict" THEN value = <<>>
    ELSE IF platform = NoPlatform /\ DetectPlatform(record.v) = NoPlatform THEN value = <<>>
    ELSE IF PlatformOrDetected(record.v, platform) \notin Registered THEN value = <<>>
    ELSE value = BuilderOf(op, PlatformOrDetected(record.v, platform), record.v)

\* C11: parse_post and parse_comment never raise. They return null when the
\* input is not a mapping, when no platform is given and none is detected,
\* when the platform has no registered builder, or when the builder fails;
\* otherwise they return the builder's record.
C11_NeverRaises ==
    ret.op \in {"parse_post", "parse_comment"}
    => /\ ret.raised = ""
       /\ NullOrBuilt(ret.op, ret.args[1], ret.args[2], ret.value)

\* The Douyin post builder fails on a numeric aweme_id (content_id must be a
\* string): parse_post returns null and does not raise.
C11_Witness ==
    /\ ret.op = "parse_post"
    /\ ret.args = <<Dict("aweme_id" :> JInt(7)), NoPlatform>>
    /\ ParseDouyinPost(ret.args[1].v) = <<>>
    /\ ret.raised = ""
    /\ ret.value = <<>>

\* C12: every Comment a registered comment builder produces has
\* is_sub_comment true if and only if its parent_comment_id is non-null and
\* is a real parent: parent_comment_id is never "0", and is_sub_comment is
\* never true while parent_comment_id is null.
C12_SubCommentIffRealParent ==
    (ret.op = "parse_comment" /\ ret.value # <<>>)
    => /\ ret.value[1].parent_comment_id # JStr("0")
       /\ ret.value[1].is_sub_comment
             <=> (/\ ret.value[1].parent_comment_id # Null
                  /\ ret.value[1].parent_comment_id # JStr("0"))

\* A comment record written for the platform that builds it: its content_id
\* field is the one the builder reads
OwnCommentRecord(record, platform) ==
    /\ record \in CommentRecords
    /\ platform \in Registered
    /\ \/ platform = "dy" /\ Has(record.v, "aweme_id")
       \/ platform = "xhs" /\ Has(record.v, "note_id")
       \/ platform = "bili" /\ Has(record.v, "bvid")

NoParent(data) ==
    \/ ~Has(data, "parent_comment_id")
    \/ data["parent_comment_id"] \in {Null, JStr("0"), JInt(0)}

\* C13: for each registered comment builder, a record whose
\* parent_comment_id is absent, null, "0" or 0 gives a Comment with
\* parent_comment_id null and is_sub_comment false, and a record whose
\* parent_comment_id is another identifier ("789") gives a Comment with that
\* identifier as a string and is_sub_comment true.
C13_ParentNormalised ==
    (ret.op = "parse_comment" /\ OwnCommentRecord(ret.args[1], ret.args[2]))
    => /\ ret.value # <<>>
       /\ NoParent(ret.args[1].v)
             => (/\ ret.value[1].parent_comment_id = Null
                 /\ ~ret.value[1].is_sub_comment)
       /\ (/\ Has(ret.args[1].v, "parent_comment_id")
           /\ ret.args[1].v["parent_comment_id"] = JStr("789"))
             => (/\ ret.value[1].parent_comment_id = JStr("789")
                 /\ ret.value[1].is_sub_comment)

\* The registry order of the platforms, and the content-id fields of each
RegistryOrder == <<"dy", "xhs", "bili", "ks", "wb", "tieba", "zhihu">>

ContentIdFields(platform) ==
    LET n == CHOOSE i \in DOMAIN PlatformSignatures : PlatformSignatures[i][1] = platform
    IN  {PlatformSignatures[n][2][k] : k \in DOMAIN PlatformSignatures[n][2]}

Matching(keys) ==
    {n \in DOMAIN RegistryOrder : ContentIdFields(RegistryOrder[n]) \cap keys # {}}

ExpectedPlatform(keys) ==
    IF {"comment_id", "aweme_id"} \subseteq keys THEN "dy"
    ELSE IF {"comment_id", "note_id"} \subseteq keys THEN "xhs"
    ELSE IF Matching(keys) = {} THEN NoPlatform
    ELSE RegistryOrder[FirstOf(Matching(keys))]

\* C14: detect_platform is a function of the record's key set: Douyin for
\* comment_id with aweme_id, else Xiaohongshu for comment_id with note_id,
\* otherwise the first platform in the order DY, XHS, BILI, KS, WB, TIEBA,
\* ZHIHU whose content-id fields meet the keys, and unknown exactly when no
\* content-id field of any platform is among the keys.
C14_DetectByKeySet ==
    (ret.op = "detect_platform" /\ ret.args[1].t = "dict")
    => /\ ret.value = ExpectedPlatform(DOMAIN ret.args[1].v)
       /\ ret.value = NoPlatform <=> Matching(DOMAIN ret.args[1].v) = {}

\* A record with a Kuaishou and a Bilibili content-id field: Bilibili comes
\* first in the registry.
C14_Witness ==
    /\ ret.op = "detect_platform"
    /\ ret.args[1].t = "dict"
    /\ DOMAIN ret.args[1].v = {"photo_id", "video_id"}
    /\ ret.value = "bili"

\* The content-id fields of the platforms with a post builder
PostIdFields(platform) ==
    IF platform = "dy" THEN {"aweme_id"}
    ELSE IF platform = "xhs" THEN {"note_id"}
    ELSE {"bvid", "video_id"}

\* The comment-id fields each comment builder reads
CommentIdFields(platform) ==
    IF platform = "dy" THEN {"comment_id", "cid"}
    ELSE IF platform = "xhs" THEN {"comment_id", "id"}
    ELSE {"comment_id", "rpid"}

NonEmptyString(v) == v.t = "str" /\ v.v # ""

\* A record with one field, a content-id field of the platform, holding a
\* non-empty string
OnlyContentId(record, platform) ==
    /\ record.t = "dict"
    /\ \E f \in PostIdFields(platform) :
          DOMAIN record.v = {f} /\ NonEmptyString(record.v[f])

\* C19: for each platform with a registered post builder (Douyin,
\* Xiaohongshu, Bilibili), parse_post on a record holding only that
\* platform's content-id field with a non-empty string returns a Post of
\* that platform with that content_id and every other field at its default.
C19_PostFromContentIdAlone ==
    (/\ ret.op = "parse_post"
     /\ \E platform \in Registered :
           /\ ret.args[2] \in {NoPlatform, platform}
           /\ OnlyContentId(ret.args[1], platform))
    => /\ ret.value # <<>>
       /\ \E f \in DOMAIN ret.args[1].v : ret.value[1].content_id = ret.args[1].v[f].v
       /\ OnlyContentId(ret.args[1], ret.value[1].platform)
       /\ ret.value[1].liked_count = 0
       /\ ret.value[1].crawl_time = NoTime
       /\ ret.value[1].source_file = <<>>

\* The raw record holds an identifier, a non-empty string, under one of the
\* fields the building platform reads for the id
HasIdentifier(data, fields) ==
    \E f \in fields : Has(data, f) /\ NonEmptyString(data[f])

\* C20: every Post or Comment built by parse_post / parse_comment has a
\* non-empty content_id (posts) or comment_id (comments) whenever the raw
\* record holds an identifier under one of the alias fields of the building
\* platform.
C20_IdentifierKept ==
    /\ (/\ ret.op = "parse_post"
        /\ ret.value # <<>>
        /\ HasIdentifier(ret.args[1].v, PostIdFields(ret.value[1].platform)))
       => ret.value[1].content_id # ""
    /\ (/\ ret.op = "parse_comment"
        /\ ret.value # <<>>
        /\ HasIdentifier(ret.args[1].v, CommentIdFields(ret.value[1].platform)))
       => ret.value[1].comment_id # ""

----------------------------------------------------------------------------
(* Further claims about parse_json_file and parse_json_files, under        *)
(* SpecParse                                                                *)

\* The input elements of a usable file
Elements(file_path) ==
    IF fs[file_path].kind = "object" THEN <<Dict(fs[file_path].data)>>
    ELSE fs[file_path].data

\* A mapping element with a comment_id key, or with both a content key and
\* a parent_comment_id key
ClassifiedComment(element) ==
    /\ element.t = "dict"
    /\ \/ "comment_id" \in DOMAIN element.v
       \/ {"content", "parent_comment_id"} \subseteq DOMAIN element.v

ClassifiedPost(element) == element.t = "dict" /\ ~ClassifiedComment(element)

ErrorIndices(out) == {out.errors[i].idx : i \in DOMAIN out.errors}

EachKindFromItsBuilder(data, out, hint) ==
    /\ Len(out.comments) =
          Cardinality({i \in DOMAIN data :
                          ClassifiedComment(data[i]) /\ i \notin ErrorIndices(out)})
    /\ Len(out.posts) =
          Cardinality({i \in DOMAIN data :
                          ClassifiedPost(data[i]) /\ i \notin ErrorIndices(out)})
    /\ \A i \in DOMAIN data :
          (/\ ClassifiedComment(data[i])
           /\ ParseComment(data[i].v, hint) = <<>>)
          => i \in ErrorIndices(out)

\* C15: in parse_json_file a mapping element is a comment exactly when it
\* has a comment_id key or both a content and a parent_comment_id key, and
\* a post otherwise. A comment element goes to the comment builder only and
\* a post element to the post builder only: a comment that fails is not
\* retried as a post and becomes one error.
C15_ClassifiedOnce ==
    (/\ ret.op = "parse_json_file"
     /\ ~ret.deduplicate
     /\ ~Unusable(ret.args[1]))
    => EachKindFromItsBuilder(Elements(ret.args[1]), heap[ret.out],
                              PlatformFromName[ret.args[1]])

\* A comment with a numeric comment_id, which the comment builder rejects
\* and the post builder would accept, next to a reply without comment_id:
\* one error, one comment, no post.
C15_Witness ==
    /\ ret.op = "parse_json_file"
    /\ ~ret.deduplicate
    /\ ret.args = <<NamePlain>>
    /\ fs[NamePlain].kind = "array"
    /\ fs[NamePlain].data = <<CommentIntId, ReplyNoId>>
    /\ ParsePost(CommentIntId.v, NoPlatform) # <<>>
    /\ heap[ret.out].posts = <<>>
    /\ Len(heap[ret.out].comments) = 1
    /\ ErrorIndices(heap[ret.out]) = {1}

\* The indices of the post elements, and of the comment elements, that gave
\* a record, in element order
BuiltPosts(data, out) ==
    SelectSeq([i \in DOMAIN data |-> i],
              LAMBDA i : ClassifiedPost(data[i]) /\ i \notin ErrorIndices(out))

BuiltComments(data, out) ==
    SelectSeq([i \in DOMAIN data |-> i],
              LAMBDA i : ClassifiedComment(data[i]) /\ i \notin ErrorIndices(out))

\* The platform the claim gives to an element: the hint of the file name if
\* there is one, else the platform detected from the element's fields
PlatformFor(element, hint) ==
    IF hint # NoPlatform THEN hint ELSE DetectPlatform(element.v)

SameIdentity(record, built) ==
    /\ built # <<>>
    /\ record.platform = built[1].platform
    /\ record.content_id = built[1].content_id

BuiltWithPlatformFor(data, out, hint) ==
    /\ Len(BuiltPosts(data, out)) = Len(out.posts)
    /\ Len(BuiltComments(data, out)) = Len(out.comments)
    /\ \A k \in DOMAIN out.posts :
          SameIdentity(out.posts[k],
                       BuilderOf("parse_post",
                                 PlatformFor(data[BuiltPosts(data, out)[k]], hint),
                                 data[BuiltPosts(data, out)[k]].v))
    /\ \A k \in DOMAIN out.comments :
          SameIdentity(out.comments[k],
                       BuilderOf("parse_comment",
                                 PlatformFor(data[BuiltComments(data, out)[k]], hint),
                                 data[BuiltComments(data, out)[k]].v))
    /\ hint # NoPlatform
          => /\ \A k \in DOMAIN out.posts : out.posts[k].platform = hint
             /\ \A k \in DOMAIN out.comments : out.comments[k].platform = hint

\* C16: in parse_json_file every record of a file is built for the platform
\* hint of the file name when there is one, and for the platform detected
\* from the record's fields only when the name gives none; with a hint,
\* every record produced carries the hinted platform.
C16_HintBeforeStructure ==
    (/\ ret.op = "parse_json_file"
     /\ ~ret.deduplicate
     /\ ~Unusable(ret.args[1]))
    => BuiltWithPlatformFor(Elements(ret.args[1]), heap[ret.out],
                            PlatformFromName[ret.args[1]])

\* A Xiaohongshu post in a file whose name says Douyin: the Douyin builder
\* runs, finds no aweme_id and gives a Douyin post with an empty content_id.
C16_Witness ==
    /\ ret.op = "parse_json_file"
    /\ ~ret.deduplicate
    /\ ret.args = <<NameEarly>>
    /\ PlatformFromName[NameEarly] = "dy"
    /\ fs[NameEarly].kind = "array"
    /\ fs[NameEarly].data = <<XhsPost>>
    /\ DetectPlatform(XhsPost.v) = "xhs"
    /\ Len(heap[ret.out].posts) = 1
    /\ heap[ret.out].posts[1].platform = "dy"
    /\ heap[ret.out].posts[1].content_id = ""

\* The elements of a file that gave a record
BuiltIndices(data, out) ==
    {i \in DOMAIN data : data[i].t = "dict" /\ i \notin ErrorIndices(out)}

PlatformOfFirstBuilt(data, out, hint) ==
    IF BuiltIndices(data, out) = {} THEN NoPlatform
    ELSE PlatformFor(data[FirstOf(BuiltIndices(data, out))], hint)

\* The paths, by position, whose own batch has a platform
WithPlatform(file_paths) ==
    {n \in DOMAIN file_paths :
        ~Unusable(file_paths[n]) /\ Single(file_paths[n]).platform # NoPlatform}

PlatformOfFirstFile(file_paths) ==
    IF WithPlatform(file_paths) = {} THEN NoPlatform
    ELSE Single(file_paths[FirstOf(WithPlatform(file_paths))]).platform

----------------------------------------------------------------------------
(* Claims about extract_crawl_time_from_filename, under SpecName *)

\* What each pattern, tried alone on the base name, yields: 1 to 3 are the
\* full-timestamp patterns, 4 and 5 the date-only ones
PatternTimes ==
    [name \in TimeNames |->
        [n \in DOMAIN TimePatterns |-> PatternTime(PathStem(name), TimePatterns[n])]]

Yielding(name) == {n \in DOMAIN TimePatterns : PatternTimes[name][n] # NoTime}

FileExists(name) == name \in DOMAIN fs /\ fs[name].kind # "missing"

FirstPatternElseMtime(name, value) ==
    IF Yielding(name) # {}
    THEN /\ value = PatternTimes[name][FirstOf(Yielding(name))]
         /\ FirstOf(Yielding(name)) >= 4
               => (value[4] = 0 /\ value[5] = 0 /\ value[6] = 0)
    ELSE IF FileExists(name) THEN value = fs[name].mtime
    ELSE value = NoTime

\* C18: extract_crawl_time_from_filename tries its patterns in a fixed order
\* on the base name, the full-timestamp patterns before the date-only ones,
\* a date-only match giving that date at midnight. The result is that of the
\* first pattern that yields a time; the file's modification time is used
\* only when no pattern yields one, and the result is null when no pattern
\* does and the file does not exist. douyin_contents_2024_0221_143052.json
\* gives 2024-02-21 14:30:52, report_2026-02-22.json gives 2026-02-22 00:00:00.
C18_FirstPatternWins ==
    ret.op = "extract_crawl_time_from_filename"
    => /\ FirstPatternElseMtime(ret.args[1], ret.value)
       /\ ret.args[1] = NameScenarioFull => ret.value = <<2024, 2, 21, 14, 30, 52>>
       /\ ret.args[1] = NameScenarioDate => ret.value = <<2026, 2, 22, 0, 0, 0>>

\* A name with a full timestamp and, after it, a date that a date-only
\* pattern matches too: the full timestamp is the result.
C18_Witness ==
    /\ ret.op = "extract_crawl_time_from_filename"
    /\ ret.args = <<NameFullThenDate>>
    /\ PatternTimes[NameFullThenDate][4] = <<2025, 6, 7, 0, 0, 0>>
    /\ ret.value = <<2024, 1, 2, 3, 4, 5>>

----------------------------------------------------------------------------
(* Further claims about parse_post, under SpecRecord *)

\* C21: every post parse_post returns has a liked_count that is a
\* non-negative integer, whatever the raw value of the record's counter
\* field: null, an integer, a numeric string, "" or a string that is no
\* number.
C21_CountersNonNegative ==
    (ret.op = "parse_post" /\ ret.raised = "" /\ ret.value # <<>>)
        => ret.value[1].liked_count \in Nat

----------------------------------------------------------------------------
(* Further claims about deduplicate() and deduplication_stats, under       *)
(* SpecDedup                                                                *)

First(S) == CHOOSE j \in S : \A k \in S : j <= k

\* C23: at every iteration of the scan, a record that shares its key with
\* the retained candidate, both having a capture time, leaves the candidate
\* in place unless its capture time is strictly later; so a key group of two
\* records with the same capture time is survived by the first of them.
C23_EqualTimesKeepEarlier ==
    ret.op = "deduplicate" =>
        LET inp == heap[ret.self]
            out == heap[ret.out]
        IN  /\ \A n \in DOMAIN inp.posts :
                 LET before == PostScan(inp.posts, n - 1)
                     after == PostScan(inp.posts, n)
                     new == inp.posts[n]
                 IN  \A j \in DOMAIN before :
                        ( /\ before[j].platform = new.platform
                          /\ before[j].content_id = new.content_id
                          /\ before[j].crawl_time # NoTime
                          /\ new.crawl_time # NoTime
                          /\ ~DtGreater(new.crawl_time, before[j].crawl_time) )
                        => after[j] = before[j]
            /\ \A n \in DOMAIN inp.comments :
                 LET before == CommentScan(inp.comments, n - 1)
                     after == CommentScan(inp.comments, n)
                     new == inp.comments[n]
                 IN  \A j \in DOMAIN before :
                        ( /\ before[j].platform = new.platform
                          /\ before[j].comment_id = new.comment_id
                          /\ before[j].crawl_time # NoTime
                          /\ new.crawl_time # NoTime
                          /\ ~DtGreater(new.crawl_time, before[j].crawl_time) )
                        => after[j] = before[j]
            /\ \A i \in DOMAIN inp.posts :
                 LET g == PostGroup(inp.posts, i)
                 IN  ( /\ Cardinality(g) = 2
                       /\ inp.posts[i].crawl_time # NoTime
                       /\ \A j \in g : inp.posts[j].crawl_time = inp.posts[i].crawl_time )
                     => \A s \in PostSurvivors(out.posts, inp.posts, i) :
                           out.posts[s] = inp.posts[First(g)]
            /\ \A i \in DOMAIN inp.comments :
                 LET g == CommentGroup(inp.comments, i)
                 IN  ( /\ Cardinality(g) = 2
                       /\ inp.comments[i].crawl_time # NoTime
                       /\ \A j \in g : inp.comments[j].crawl_time
                                          = inp.comments[i].crawl_time )
                     => \A s \in CommentSurvivors(out.comments, inp.comments, i) :
                           out.comments[s] = inp.comments[First(g)]

\* Two comments of one key, both captured at T1, with different like
\* counts: the first one is kept.
C23_Witness ==
    /\ ret.op = "deduplicate"
    /\ LET inp == heap[ret.self]
           out == heap[ret.out]
       IN  /\ Len(inp.comments) = 2
           /\ CommentGroup(inp.comments, 1) = {1, 2}
           /\ inp.comments[1].crawl_time = T1
           /\ inp.comments[2].crawl_time = T1
           /\ inp.comments[1].like_count # inp.comments[2].like_count
           /\ out.comments = <<inp.comments[1]>>

\* C24: for a batch b that was deduplicated, deduplication_stats of b
\* reports as duplicate_posts the number of posts deduplicate() removed
\* (len(b.posts) - len(result.posts)), as duplicate_comments the number of
\* comments removed, and as total_duplicates the number of records removed.
C24_StatsEqualRemoved ==
    ret.op = "deduplication_stats" =>
        \A o \in DOMAIN heap :
            origin[o] = ret.self =>
                LET b == heap[ret.self]
                    out == heap[o]
                    removed_posts == Len(b.posts) - Len(out.posts)
                    removed_comments == Len(b.comments) - Len(out.comments)
                IN  /\ ret.stats.duplicate_posts = removed_posts
                    /\ ret.stats.duplicate_comments = removed_comments
                    /\ ret.stats.total_duplicates = removed_posts + removed_comments

\* The last member of a key group that has no capture time
LastWithoutTime(records, g) == Last({j \in g : records[j].crawl_time = NoTime})

\* C25: after deduplicate(), a key group of three or more records of which
\* some have no capture time is survived by a member standing at or after
\* the group's last member without capture time, never by one standing
\* before it.
C25_SurvivorNotBeforeLastNull ==
    ret.op = "deduplicate" =>
        LET inp == heap[ret.self]
            out == heap[ret.out]
        IN  /\ \A i \in DOMAIN inp.posts :
                 LET g == PostGroup(inp.posts, i)
                 IN  ( /\ Cardinality(g) >= 3
                       /\ \E j \in g : inp.posts[j].crawl_time = NoTime )
                     => /\ PostSurvivors(out.posts, inp.posts, i) # {}
                        /\ \A s \in PostSurvivors(out.posts, inp.posts, i) :
                              \E j \in g : /\ j >= LastWithoutTime(inp.posts, g)
                                           /\ out.posts[s] = inp.posts[j]
            /\ \A i \in DOMAIN inp.comments :
                 LET g == CommentGroup(inp.comments, i)
                 IN  ( /\ Cardinality(g) >= 3
                       /\ \E j \in g : inp.comments[j].crawl_time = NoTime )
                     => /\ CommentSurvivors(out.comments, inp.comments, i) # {}
                        /\ \A s \in CommentSurvivors(out.comments, inp.comments, i) :
                              \E j \in g : /\ j >= LastWithoutTime(inp.comments, g)
                                           /\ out.comments[s] = inp.comments[j]

\* Three posts of one key: the first has the latest capture time of the
\* group, the second has none, the third an earlier one; the third is kept.
C25_Witness ==
    /\ ret.op = "deduplicate"
    /\ LET inp == heap[ret.self]
           out == heap[ret.out]
       IN  /\ Len(inp.posts) = 3
           /\ PostGroup(inp.posts, 1) = {1, 2, 3}
           /\ inp.posts[1].crawl_time = T2
           /\ inp.posts[2].crawl_time = NoTime
           /\ inp.posts[3].crawl_time = T1
           /\ out.posts = <<inp.posts[3]>>

----------------------------------------------------------------------------
(* Further claims about parse_json_file and parse_json_files, under        *)
(* SpecParse                                                                *)

\* F: the positions of the path list whose single-file ingestion raises
FailedPaths(file_paths) == {n \in DOMAIN file_paths : Unusable(file_paths[n])}

\* C26: the batch parse_json_files(paths, deduplicate=False) returns has
\* success_count + error_count = total_records + F, F being the number of
\* paths whose ingestion raised; so success_count + error_count =
\* total_records holds for it exactly when no file failed.
C26_MergedCountsOffByFailedFiles ==
    (ret.op = "parse_json_files" /\ ~ret.deduplicate)
    => /\ ret.raised = ""
       /\ ret.out \in DOMAIN heap
       /\ heap[ret.out].success_count + heap[ret.out].error_count
             = heap[ret.out].total_records + Cardinality(FailedPaths(ret.args))
       /\ (heap[ret.out].success_count + heap[ret.out].error_count
              = heap[ret.out].total_records)
             <=> FailedPaths(ret.args) = {}

\* Two paths, the first unusable, the second an array with an element that
\* gives a record and one that gives an error: 1 + 2 = 2 + 1.
C26_Witness ==
    /\ ret.op = "parse_json_files"
    /\ ~ret.deduplicate
    /\ Len(ret.args) = 2
    /\ FailedPaths(ret.args) = {1}
    /\ heap[ret.out].total_records = 2
    /\ heap[ret.out].success_count = 1
    /\ heap[ret.out].error_count = 2

\* The capture time derived for a file that exists: from its name, else its
\* modification time
DerivedTime(file_path) ==
    IF TimeFromName[file_path] # NoTime THEN TimeFromName[file_path]
    ELSE fs[file_path].mtime

AllCarry(records, crawl_time, source_file) ==
    \A i \in DOMAIN records : /\ records[i].crawl_time = crawl_time
                              /\ records[i].source_file = source_file

\* The member of a key group that the claim expects to be kept
Kept(g, crawl_time) == IF crawl_time # NoTime THEN First(g) ELSE Last(g)

\* C27: every post and comment of the batch parse_json_file returns carries
\* the capture time derived from the file's name or modification time and
\* the file's path as source_file; and with deduplicate=True the record kept
\* for a key is the first record of that key in file order when that capture
\* time is set, the last one when it is not.
C27_OneTimePerFileFirstKept ==
    (ret.op = "parse_json_file" /\ ret.raised = "")
    => /\ AllCarry(heap[ret.out].posts, DerivedTime(ret.args[1]), ret.args[1])
       /\ AllCarry(heap[ret.out].comments, DerivedTime(ret.args[1]), ret.args[1])
       /\ ret.deduplicate =>
            LET all == Single(ret.args[1])
                out == heap[ret.out]
            IN  /\ \A i \in DOMAIN all.posts :
                     /\ PostSurvivors(out.posts, all.posts, i) # {}
                     /\ \A s \in PostSurvivors(out.posts, all.posts, i) :
                           out.posts[s] = all.posts[Kept(PostGroup(all.posts, i),
                                                         DerivedTime(ret.args[1]))]
                /\ \A i \in DOMAIN all.comments :
                     /\ CommentSurvivors(out.comments, all.comments, i) # {}
                     /\ \A s \in CommentSurvivors(out.comments, all.comments, i) :
                           out.comments[s]
                              = all.comments[Kept(CommentGroup(all.comments, i),
                                                  DerivedTime(ret.args[1]))]

\* A file holding the post "a" with 100 likes and then with 200 likes,
\* ingested with deduplicate=True: the one with 100 likes is kept.
C27_Witness ==
    /\ ret.op = "parse_json_file"
    /\ ret.deduplicate
    /\ fs[ret.args[1]].kind = "array"
    /\ fs[ret.args[1]].data = <<PostA100, PostA200>>
    /\ Len(heap[ret.out].posts) = 1
    /\ heap[ret.out].posts[1].liked_count = 100
    /\ heap[ret.out].posts[1].crawl_time # NoTime
    /\ heap[ret.out].posts[1].source_file = ret.args[1]

----------------------------------------------------------------------------
(* Further claims about detect_platform, under SpecRecord *)

\* The registry scan alone: the first platform in registry order one of
\* whose content-id fields is among the keys
ScanOnly(keys) ==
    IF Matching(keys) = {} THEN NoPlatform
    ELSE RegistryOrder[FirstOf(Matching(keys))]

\* C28: for every record, detect_platform returns what the scan of the
\* registry alone returns on the record's keys; the rule for comment_id with
\* aweme_id or note_id, which runs first, never gives another platform.
C28_CommentRuleRedundant ==
    (ret.op = "detect_platform" /\ ret.args[1].t = "dict")
    => ret.value = ScanOnly(DOMAIN ret.args[1].v)

\* A comment that carries aweme_id and note_id: the comment rule answers
\* Douyin, as the scan would.
C28_Witness ==
    /\ ret.op = "detect_platform"
    /\ ret.args[1].t = "dict"
    /\ {"comment_id", "aweme_id", "note_id"} \subseteq DOMAIN ret.args[1].v
    /\ ret.value = "dy"

----------------------------------------------------------------------------
(* CrawlerExecution (core/models.py)                                        *)

\* ExecutionStatus values of a finished execution
FinishedStatuses == {"completed", "failed", "timeout", "stopped"}

\* CrawlerExecution(request=request): every Optional field is None (<<>>),
\* the lists are empty, the status is PENDING. output_files stays empty in
\* every call modelled and is left out.
NewExecution(request) ==
    [request |-> request, process_id |-> <<>>, status |-> "pending",
     start_time |-> <<>>, end_time |-> <<>>, stdout_lines |-> <<>>,
     stderr_lines |-> <<>>, return_code |-> <<>>, error_message |-> <<>>]

\* The f-string of mark_completed, "<process return code>: {return_code}",
\* for the return codes of the model (the source text is Chinese)
ReturnCodeMessage == (1 :> "return code: 1") @@ (-15 :> "return code: -15")

\* self.add_output(line, is_stderr)
AddOutput(self, line, is_stderr) ==
    IF is_stderr
    THEN [self EXCEPT !.stderr_lines = Append(@, line)]
    ELSE [self EXCEPT !.stdout_lines = Append(@, line)]

\* self.mark_running(process_id); now is what datetime.now() returns
MarkRunning(self, process_id, now) ==
    [self EXCEPT !.status = "running", !.process_id = <<process_id>>,
                 !.start_time = <<now>>]

\* self.mark_completed(return_code)
MarkCompleted(self, return_code, now) ==
    IF return_code = 0
    THEN [self EXCEPT !.return_code = <<return_code>>, !.end_time = <<now>>,
                      !.status = "completed"]
    ELSE [self EXCEPT !.return_code = <<return_code>>, !.end_time = <<now>>,
                      !.status = "failed",
                      !.error_message = <<ReturnCodeMessage[return_code]>>]

\* self.mark_failed(error)
MarkFailed(self, error, now) ==
    [self EXCEPT !.status = "failed", !.error_message = <<error>>,
                 !.end_time = <<now>>]

\* self.mark_timeout()
MarkTimeout(self, now) ==
    [self EXCEPT !.status = "timeout", !.end_time = <<now>>]

\* self.mark_stopped()
MarkStopped(self, now) ==
    [self EXCEPT !.status = "stopped", !.end_time = <<now>>]

\* self.is_finished
IsFinished(self) == self.status \in FinishedStatuses

\* validate_status_consistency passes (it runs when the model is
\* constructed; assignments in the mark_* methods do not run it)
ValidateStatusConsistency(self) ==
    /\ self.status = "running"
         => (self.process_id # <<>> /\ self.start_time # <<>>)
    /\ self.status \in FinishedStatuses => self.end_time # <<>>
    /\ self.status = "failed"
         => ~( /\ self.error_message \in {<<>>, <<"">>}
               /\ self.stderr_lines = <<>> )

----------------------------------------------------------------------------
(* Bounds and inputs of SpecExecution: calls on one CrawlerExecution *)

MaxCalls == 4        \* calls made on the execution, or on the runner

SampleRequest == [platform |-> "dy", keywords |-> "test"]

ProcessIds == {12345}

ReturnCodes == {0, 1}

\* error of mark_failed(error: str)
ErrorInputs == {"", "Something went wrong"}

LineInputs == {"line"}

InitExecution ==
    /\ fs = <<>>
    /\ heap = <<NewExecution(SampleRequest)>>
    /\ origin = <<>>
    /\ ret = NoCall
    /\ os = NoOs
    /\ runner = NoRunner

\* A method call on the execution: the object after it, and the clock
Mutate(op, args, execution) ==
    /\ heap' = [heap EXCEPT ![1] = execution]
    /\ os' = [os EXCEPT !.now = @ + 1]
    /\ ret' = [op |-> op, args |-> args]
    /\ UNCHANGED <<fs, origin, runner>>

\* execution.add_output(line, is_stderr)
CallAddOutput ==
    /\ os.now < MaxCalls
    /\ \E line \in LineInputs : \E is_stderr \in BOOLEAN :
          Mutate("add_output", <<line, is_stderr>>, AddOutput(heap[1], line, is_stderr))

\* execution.mark_running(process_id)
CallMarkRunning ==
    /\ os.now < MaxCalls
    /\ \E process_id \in ProcessIds :
          Mutate("mark_running", <<process_id>>,
                 MarkRunning(heap[1], process_id, os.now + 1))

\* execution.mark_completed(return_code)
CallMarkCompleted ==
    /\ os.now < MaxCalls
    /\ \E return_code \in ReturnCodes :
          Mutate("mark_completed", <<return_code>>,
                 MarkCompleted(heap[1], return_code, os.now + 1))

\* execution.mark_failed(error)
CallMarkFailed ==
    /\ os.now < MaxCalls
    /\ \E error \in ErrorInputs :
          Mutate("mark_failed", <<error>>, MarkFailed(heap[1], error, os.now + 1))

\* execution.mark_timeout()
CallMarkTimeout ==
    /\ os.now < MaxCalls
    /\ Mutate("mark_timeout", <<>>, MarkTimeout(heap[1], os.now + 1))

\* execution.mark_stopped()
CallMarkStopped ==
    /\ os.now < MaxCalls
    /\ Mutate("mark_stopped", <<>>, MarkStopped(heap[1], os.now + 1))

NextExecution ==
    \/ CallAddOutput
    \/ CallMarkRunning
    \/ CallMarkCompleted
    \/ CallMarkFailed
    \/ CallMarkTimeout
    \/ CallMarkStopped

SpecExecution == InitExecution /\ [][NextExecution]_vars

----------------------------------------------------------------------------
(* Claims about CrawlerExecution, under SpecExecution *)

\* C29: after any sequence of mark_running, mark_completed, mark_failed,
\* mark_timeout, mark_stopped and add_output calls on an execution created
\* PENDING, the execution passes validate_status_consistency (RUNNING has
\* process_id and start_time; a finished status has end_time; FAILED has a
\* non-empty error_message or stderr line), and COMPLETED has return_code 0.
C29_StatusConsistentAfterCalls ==
    \A i \in DOMAIN heap :
        /\ ValidateStatusConsistency(heap[i])
        /\ heap[i].status = "completed" => heap[i].return_code = <<0>>

----------------------------------------------------------------------------
(* CrawlerRunner (shell/runner.py)                                          *)
(*                                                                          *)
(* A process is os.processes[pid]: whether it runs, its return code once it *)
(* has exited, and what it wrote. A line of output is <<pid, text>>, the    *)
(* text with its writer; text "" is the empty string that split('\n')       *)
(* gives after a final newline.                                             *)

\* The message of mark_failed in poll and stop ("process not started"; the
\* source text is Chinese)
ProcessNotStarted == "process not started"

\* subprocess.Popen(cmd, ...) returned
NewProcess == [state |-> "running", return_code |-> <<>>, stdout |-> <<>>, stderr |-> <<>>]

\* `self._current_process is not None and self._current_process.poll() is None`
IsRunningNever(r, processes) == FALSE

IsRunning(r, processes) ==
    /\ r.current_process # <<>>
    /\ processes[r.current_process[1]].state = "running"

\* `for line in text.split('\n'): if line: execution.add_output(line, ...)`
RECURSIVE AddLines(_, _, _, _)
AddLines(execution, lines, n, is_stderr) ==
    IF n = 0 THEN execution
    ELSE IF lines[n][2] # ""
         THEN AddOutput(AddLines(execution, lines, n - 1, is_stderr), lines[n], is_stderr)
    ELSE AddLines(execution, lines, n - 1, is_stderr)

\* The branch of poll for a process that has exited: communicate(), the
\* output lines, mark_completed(return_code)
Collected(execution, process, now) ==
    MarkCompleted(AddLines(AddLines(execution, process.stdout, Len(process.stdout), FALSE),
                           process.stderr, Len(process.stderr), TRUE),
                  process.return_code[1], now)

\* self.poll(execution): the execution and the runner after the call
Poll(execution, r, processes, now) ==
    IF IsFinished(execution) THEN [execution |-> execution, runner |-> r]
    ELSE IF r.current_process = <<>>
         THEN [execution |-> MarkFailed(execution, ProcessNotStarted, now), runner |-> r]
    ELSE IF processes[r.current_process[1]].state = "running"
         THEN [execution |-> execution, runner |-> r]
    ELSE [execution |-> Collected(execution, processes[r.current_process[1]], now),
          runner |-> NoRunner]

\* process.terminate(), process.wait(timeout=5), and process.kill() after
\* that: a running process ends with the code of the signal that ended it
Terminated(process, signal_code) ==
    IF process.state = "running"
    THEN [process EXCEPT !.state = "exited", !.return_code = <<signal_code>>]
    ELSE process

\* self.stop(execution): the execution, the runner and the processes after
\* the call
Stop(execution, r, processes, now, signal_code) ==
    IF IsFinished(execution)
    THEN [execution |-> execution, runner |-> r, processes |-> processes]
    ELSE IF r.current_process = <<>>
         THEN [execution |-> MarkFailed(execution, ProcessNotStarted, now),
               runner |-> r, processes |-> processes]
    ELSE [execution |-> MarkStopped(execution, now),
          runner |-> NoRunner,
          processes |-> [processes EXCEPT ![r.current_process[1]] =
                                              Terminated(@, signal_code)]]

\* The timeout branch of wait: self.stop(execution); execution.mark_timeout()
TimedOut(stopped, now) == [stopped EXCEPT !.execution = MarkTimeout(@, now)]

----------------------------------------------------------------------------
(* Bounds and inputs of SpecRunner: calls on one CrawlerRunner *)

MaxProcesses == 2    \* processes launched

\* SIGTERM, SIGKILL
SignalCodes == {-15, -9}

\* How a crawler process ends by itself: its return code and what it wrote
ExitInputs(pid) ==
    {[return_code |-> 0, stdout |-> <<<<pid, "output">>, <<pid, "">>>>, stderr |-> <<>>],
     [return_code |-> 1, stdout |-> <<>>, stderr |-> <<<<pid, "error">>, <<pid, "">>>>]}

Exited(process, exit) ==
    [process EXCEPT !.state = "exited", !.return_code = <<exit.return_code>>,
                    !.stdout = exit.stdout, !.stderr = exit.stderr]

InitRunner ==
    /\ fs = <<>>
    /\ heap = <<>>
    /\ origin = <<>>
    /\ ret = NoCall
    /\ os = NoOs
    /\ runner = NoRunner

\* What a call on the runner leaves
Returns(op, args, raised, value, executions, r, processes) ==
    /\ ret' = [op |-> op, args |-> args, raised |-> raised, value |-> value]
    /\ heap' = executions
    /\ runner' = r
    /\ os' = [now |-> os.now + 1, processes |-> processes]
    /\ UNCHANGED <<fs, origin>>

\* self.start(request) from `cmd = build_command(...)` on, when Popen
\* returns a process: its pid is its place in os.processes
Launch(request) ==
    /\ Len(os.processes) < MaxProcesses
    /\ Returns("start", <<request>>, "", Len(heap) + 1,
               Append(heap, MarkRunning(NewExecution(request),
                                        Len(os.processes) + 1, os.now + 1)),
               [current_process |-> <<Len(os.processes) + 1>>,
                current_execution |-> <<Len(heap) + 1>>],
               Append(os.processes, NewProcess))

\* execution = runner.start(request)
CallStart ==
    /\ os.now < MaxCalls
    /\ IF IsRunning(runner, os.processes)
       THEN Returns("start", <<SampleRequest>>, "CrawlerRunnerError", 0,
                    heap, runner, os.processes)
       ELSE \/ Returns("start", <<SampleRequest>>, "ProcessError", 0,
                       heap, runner, os.processes)
            \/ Launch(SampleRequest)

\* A running crawler process exits
ProcessExits ==
    \E pid \in DOMAIN os.processes :
        /\ os.processes[pid].state = "running"
        /\ \E exit \in ExitInputs(pid) :
              os' = [os EXCEPT !.processes[pid] = Exited(@, exit)]
        /\ UNCHANGED <<fs, heap, origin, ret, runner>>

Polled(op, args, execution, polled) ==
    Returns(op, args, "", execution, [heap EXCEPT ![execution] = polled.execution],
            polled.runner, os.processes)

\* execution = runner.poll(execution)
CallPoll ==
    /\ os.now < MaxCalls
    /\ \E execution \in DOMAIN heap :
          Polled("poll", <<execution>>, execution,
                 Poll(heap[execution], runner, os.processes, os.now + 1))

Stopped(op, args, execution, stopped) ==
    Returns(op, args, "", execution, [heap EXCEPT ![execution] = stopped.execution],
            stopped.runner, stopped.processes)

\* execution = runner.stop(execution)
CallStop ==
    /\ os.now < MaxCalls
    /\ \E execution \in DOMAIN heap : \E signal_code \in SignalCodes :
          Stopped("stop", <<execution>>, execution,
                  Stop(heap[execution], runner, os.processes, os.now + 1, signal_code))

\* The loop of wait for an execution that is not finished and a process
\* that runs: the process exits while wait sleeps, and the next poll
\* collects it
WaitedFor(execution, timeout, pid, exit) ==
    Returns("wait", <<execution, timeout>>, "", execution,
            [heap EXCEPT ![execution] =
                Collected(@, Exited(os.processes[pid], exit), os.now + 1)],
            NoRunner,
            [os.processes EXCEPT ![pid] = Exited(@, exit)])

\* execution = runner.wait(execution, timeout): the timeout passes while the
\* execution is unfinished (timeout is not None), or the polls go on until
\* the execution is finished
CallWait ==
    /\ os.now < MaxCalls
    /\ \E execution \in DOMAIN heap : \E timeout \in BOOLEAN :
          \/ /\ timeout
             /\ ~IsFinished(heap[execution])
             /\ \E signal_code \in SignalCodes :
                   Stopped("wait", <<execution, timeout>>, execution,
                           TimedOut(Stop(heap[execution], runner, os.processes,
                                         os.now + 1, signal_code),
                                    os.now + 1))
          \/ IF ~IsFinished(heap[execution]) /\ IsRunning(runner, os.processes)
             THEN \E exit \in ExitInputs(runner.current_process[1]) :
                     WaitedFor(execution, timeout, runner.current_process[1], exit)
             ELSE Polled("wait", <<execution, timeout>>, execution,
                         Poll(heap[execution], runner, os.processes, os.now + 1))

NextRunner == CallStart \/ ProcessExits \/ CallPoll \/ CallStop \/ CallWait

SpecRunner == InitRunner /\ [][NextRunner]_vars

----------------------------------------------------------------------------
(* Claims about CrawlerRunner, under SpecRunner *)

RunningProcesses == {pid \in DOMAIN os.processes : os.processes[pid].state = "running"}

\* The step is a call of the runner's method op
IsCall(op) == os'.now # os.now /\ ret'.op = op

OwnProcess(execution) == execution.process_id[1]

\* The execution holds nothing but its own process's return code and lines
OnlyOwnResults(execution, processes) ==
    /\ execution.return_code # <<>>
         => execution.return_code = processes[OwnProcess(execution)].return_code
    /\ \A n \in DOMAIN execution.stdout_lines :
          execution.stdout_lines[n][1] = OwnProcess(execution)
    /\ \A n \in DOMAIN execution.stderr_lines :
          execution.stderr_lines[n][1] = OwnProcess(execution)
    /\ execution.error_message # <<ProcessNotStarted>>

\* C30: across start, poll, stop and wait calls on one runner, every
\* execution holds only the return code and the output lines of the process
\* start() launched for it, and none is FAILED with "process not started";
\* a poll, stop or wait on an execution changes no other execution, no
\* process but the execution's own, and _current_process only when it is the
\* execution's own; and poll and stop on a finished execution change
\* nothing.
C30_OnlyOwnProcess ==
    [][ /\ \A e \in DOMAIN heap' : OnlyOwnResults(heap'[e], os'.processes)
        /\ (IsCall("poll") \/ IsCall("stop") \/ IsCall("wait"))
           => LET e == ret'.args[1]
              IN  /\ \A x \in DOMAIN heap : x # e => heap'[x] = heap[x]
                  /\ \A pid \in DOMAIN os.processes :
                        os'.processes[pid] # os.processes[pid]
                           => pid = OwnProcess(heap[e])
                  /\ runner'.current_process # runner.current_process
                        => runner.current_process = <<OwnProcess(heap[e])>>
                  /\ (IsFinished(heap[e]) /\ ret'.op \in {"poll", "stop"})
                        => /\ heap' = heap
                           /\ runner' = runner
                           /\ os'.processes = os.processes
                           /\ ret'.value = e ]_vars

====
